---- MODULE Spec2Model ----
(***************************************************************************)
(* State-machine model of the corridor simulation engine:                  *)
(*   CorridorNetwork    (src/src/models/corridor_network.py)               *)
(*   TrafficSimulator   (src/src/models/traffic_simulator.py)              *)
(*   InterventionEngine (src/src/models/interventions.py)                  *)
(* Intersections and segments are numbered; the numeric order of the       *)
(* intersection numbers stands for the string order of their ids, which    *)
(* is what heapq compares when two queue entries have the same distance.   *)
(***************************************************************************)
EXTENDS Integers, Sequences, FiniteSets, TLC

(***************************************************************************)
(* Bounds of the model.                                                    *)
(***************************************************************************)
\* segment lengths are drawn from 1..MaxLen
MaxLen == 2
\* lane counts stay within 0..MaxLanes
MaxLanes == 4
\* rows of the OD demand table
MaxRows == 2
\* items of a batch of interventions
MaxBatch == 2
\* flows handed to the congestion curve: multiples of FlowStep up to MaxFlowSteps
MaxFlowSteps == 8
\* interventions active at the same time
MaxActive == 2

(***************************************************************************)
(* Program constants.                                                      *)
(***************************************************************************)
\* float('inf'), the distance of an unreachable destination
Infinity == 1000000
\* clamp of the green time in update_signal_timing
MinGreen == 15
MaxGreen == 90
\* the cycle and green time the intersections are loaded with
DefaultCycle == 120
DefaultGreen == 50
\* capacity of one lane, vehicles per hour
LaneCapacity == 1200
\* floor of the speed the congestion curve returns, km/h
MinSpeed == 5
\* the default None of an optional argument
NoneValue == -1
\* the cap of an AQI value and the background AQI of a zone that has none listed
AqiCap == 500
DefaultBackground == 250
\* AQI values are held in 1/AqiUnit: the estimate of estimate_aqi_from_emissions
\* is a multiple of 1/3000 and compute_zone_aqi takes 0.15 of it
AqiUnit == 20000
\* speeds are held in 1/SpeedScale km/h, travel times in 1/SpeedScale minutes and
\* ratios in 1/SpeedScale, each rounded down
SpeedScale == 100

(***************************************************************************)
(* The input tables: three intersections, four directed segments.          *)
(* Segments 1 and 2 are parallel (1 -> 2), segment 3 continues 2 -> 3 and  *)
(* segment 4 is the direct road 1 -> 3; intersection 3 has no outgoing     *)
(* segment.                                                                *)
(***************************************************************************)
Nodes == {1, 2, 3}
SegFrom == <<1, 1, 2, 1>>
SegTo == <<2, 2, 3, 3>>
Segs == DOMAIN SegFrom
\* ids that are in no table
NoSuchSegment == Len(SegFrom) + 1
NoSuchIntersection == Cardinality(Nodes) + 1
SegInputs == Segs \cup {NoSuchSegment}
NodeInputs == Nodes \cup {NoSuchIntersection}
\* the ids update_segment_lanes and update_signal_timing are called with
LaneSegInputs == {1, NoSuchSegment}
\* new_lanes values update_segment_lanes is called with
LaneInputs == {1, 2}
SignalInputs == {1, NoSuchIntersection}
\* green_time_delta values update_signal_timing is called with
GreenDeltas == {MinGreen - MaxGreen, MaxGreen - MinGreen}
\* the (origin, destination) pairs dijkstra is called with: reachable pairs, an
\* unreachable pair, origin = destination, and an origin that is in no table
QueryPairs == {<<1, 2>>, <<1, 3>>, <<3, 1>>, <<2, 2>>, <<NoSuchIntersection, 1>>}

\* the lists of segment ids and of intersection ids the interventions are called
\* with: one id, the same id twice, an id that is in no table
SegmentLists == {<<1>>, <<1, 1>>, <<NoSuchSegment>>}
IntersectionLists == {<<1>>, <<NoSuchIntersection>>}
\* the segments truck_ban and reroute_traffic are called with
BanLists == {<<1>>}
RerouteInputs == {<<1, <<2>>>>}
\* num_lanes values add_lanes is called with
LaneIncrements == {1}
\* new_cycle_time and new_green_time values modify_signal_timing is called with
CycleInputs == {NoneValue, 100}
GreenInputs == {NoneValue, 40}
\* the rows of the OD demand table: (origin, destination) and vehicles per hour
DemandPairs == {<<1, 2>>, <<1, 3>>, <<3, 1>>}
Demands == {1200}
\* speed_limit_kmh and lanes of the segment table
SpeedLimit == [s \in Segs |-> 50]
InitialLanes == [s \in Segs |-> 2]
ScenarioNames == {"baseline", "scenario"}
\* zone_id of the segment table, the zones compute_zone_aqi is called with (one
\* is in no table) and ZONE_BACKGROUND_AQI
ZoneOf == <<"Z01", "Z01", "Z01", "Z06">>
ZoneInputs == {"Z01", "Z04", "Z06", "Z99"}
ZoneBackground ==
    "Z01" :> 250 @@ "Z02" :> 280 @@ "Z03" :> 265 @@ "Z04" :> 245 @@
    "Z05" :> 275 @@ "Z06" :> 290 @@ "Z07" :> 260 @@ "Z08" :> 270
\* vehicles_per_hour of the OD tables the emissions are computed for: 3 on one
\* segment of 1 km gives 9.5 ug/m3, 100 gives 316.8 ug/m3, past the last
\* breakpoint of estimate_aqi_from_emissions
AqiDemands == {3, 10, 30, 100}

VARIABLES
    length_km,          \* segment_data[s]['length_km']
    lanes,              \* segment_data[s]['lanes']
    closed,             \* segment_data[s].get('closed', False)
    graph,              \* adjacency list: from -> sequence of <<to, seg>>
    intersection_data,  \* per intersection, the dict of its timing keys
    precomputed_paths,  \* route cache: <<o, d>> -> [path, dist]
    seg_state,          \* segment_data[s]: current_flow, current_speed, queue_length
    od_matrix,          \* od_matrix_df: sequence of rows [o, d, vph]
    od_paths,           \* TrafficSimulator.od_paths: <<o, d>> -> [segments, distance]
    segment_flows,      \* TrafficSimulator.segment_flows
    segment_speeds,     \* TrafficSimulator.segment_speeds
    segment_travel_times, \* TrafficSimulator.segment_travel_times
    simulation_results, \* TrafficSimulator.simulation_results, in insertion order
    active_interventions, \* InterventionEngine.active_interventions, in insertion order
    baseline_state,     \* InterventionEngine.baseline_state
    ret,                \* the last call and what it returned
    snap,               \* the graph before the last close_segment of an open segment
    last,               \* the last intervention applied and the state it was applied to
    inflight,           \* the frame of a dijkstra call that has started and not returned
    pending             \* a close_segment or reopen_segment call that has edited the
                        \* adjacency list and not yet cleared the cache

netVars == <<length_km, lanes, closed, graph, intersection_data, precomputed_paths>>
simVars == <<seg_state, od_matrix, od_paths, segment_flows, segment_speeds,
             segment_travel_times, simulation_results>>
engVars == <<active_interventions, baseline_state>>
\* what a specification of serialized calls leaves alone: the history variables,
\* and inflight and pending, which hold no call
histVars == <<snap, last, inflight, pending>>
vars == <<length_km, lanes, closed, graph, intersection_data, precomputed_paths,
          seg_state, od_matrix, od_paths, segment_flows, segment_speeds,
          segment_travel_times, simulation_results, active_interventions,
          baseline_state, ret, snap, last, inflight, pending>>

(***************************************************************************)
(* Helpers for Python containers.                                          *)
(***************************************************************************)
Range(f) == {f[x] : x \in DOMAIN f}

\* dict with one key set (inserted when absent)
DictSet(d, k, v) == [x \in DOMAIN d \cup {k} |-> IF x = k THEN v ELSE d[x]]

\* dict.update(u)
DictUpdate(d, u) == [x \in DOMAIN d \cup DOMAIN u |-> IF x \in DOMAIN u THEN u[x] ELSE d[x]]

EmptyDict == [x \in {} |-> 0]

NoSnap == [phase |-> "none", seg |-> 0, graph |-> EmptyDict]

\* no call is in flight
NoCall == [pc |-> "idle"]

(***************************************************************************)
(* CorridorNetwork._build_graph: the segments in table order, each         *)
(* appended to the list of its from-intersection.                          *)
(***************************************************************************)
AllEdges == [s \in Segs |-> <<SegTo[s], s>>]

BuildGraph ==
    [n \in {SegFrom[s] : s \in Segs} |->
        SelectSeq(AllEdges, LAMBDA e : SegFrom[e[2]] = n)]

BuildIntersectionData ==
    [i \in Nodes |-> [cycle_time_sec |-> DefaultCycle, green_time_sec |-> DefaultGreen]]

(***************************************************************************)
(* CorridorNetwork.dijkstra, the search itself (lines 102-140).            *)
(* dist: the distances dict; par: node -> <<parent, parent_segment>>, the  *)
(* origin (parent None) is not in its domain; pq: the heap's entries.      *)
(***************************************************************************)
HeapMin(pq) ==
    CHOOSE e \in pq : \A f \in pq : e[1] < f[1] \/ (e[1] = f[1] /\ e[2] <= f[2])

DistGet(dist, n) == IF n \in DOMAIN dist THEN dist[n] ELSE Infinity

\* the neighbour loop with new_dist = seg_length (line 131 without curr_dist)
RECURSIVE Explore_forgets_distance(_, _, _, _, _, _)
Explore_forgets_distance(edges, i, len, curr, currDist, st) ==
    IF i > Len(edges) THEN st
    ELSE LET next == edges[i][1]
             seg == edges[i][2]
             newDist == len[seg]
         IN  IF newDist < DistGet(st.dist, next)
             THEN Explore_forgets_distance(edges, i + 1, len, curr, currDist,
                          [dist |-> DictSet(st.dist, next, newDist),
                           par |-> DictSet(st.par, next, <<curr, seg>>),
                           pq |-> st.pq \cup {<<newDist, next>>}])
             ELSE Explore_forgets_distance(edges, i + 1, len, curr, currDist, st)

\* the for loop over self.graph[curr_node], from edge i on
RECURSIVE Explore(_, _, _, _, _, _)
Explore(edges, i, len, curr, currDist, st) ==
    IF i > Len(edges) THEN st
    ELSE LET next == edges[i][1]
             seg == edges[i][2]
             newDist == currDist + len[seg]
         IN  IF newDist < DistGet(st.dist, next)
             THEN Explore(edges, i + 1, len, curr, currDist,
                          [dist |-> DictSet(st.dist, next, newDist),
                           par |-> DictSet(st.par, next, <<curr, seg>>),
                           pq |-> st.pq \cup {<<newDist, next>>}])
             ELSE Explore(edges, i + 1, len, curr, currDist, st)

\* the path reconstruction without line 121: the segments are left in the order
\* they were collected in, destination first
RECURSIVE Reconstruct_unreversed(_, _)
Reconstruct_unreversed(par, node) ==
    IF node \notin DOMAIN par THEN <<>>
    ELSE <<par[node][2]>> \o Reconstruct_unreversed(par, par[node][1])

\* the path reconstruction: parent_segment from the destination back to the origin
RECURSIVE Reconstruct(_, _)
Reconstruct(par, node) ==
    IF node \notin DOMAIN par THEN <<>>
    ELSE Append(Reconstruct(par, par[node][1]), par[node][2])

RECURSIVE Search(_, _, _, _)
Search(g, len, destination, st) ==
    IF st.pq = {} THEN [path |-> <<>>, dist |-> Infinity]
    ELSE LET e == HeapMin(st.pq)
             currDist == e[1]
             curr == e[2]
             popped == [st EXCEPT !.pq = st.pq \ {e}]
         IN  IF currDist > DistGet(st.dist, curr)
             THEN Search(g, len, destination, popped)
             ELSE IF curr = destination
             THEN [path |-> Reconstruct(st.par, destination), dist |-> st.dist[destination]]
             ELSE IF curr \in DOMAIN g
             THEN Search(g, len, destination, Explore(g[curr], 1, len, curr, currDist, popped))
             ELSE Search(g, len, destination, popped)

ComputeRoute(g, len, origin, destination) ==
    Search(g, len, destination,
           [dist |-> DictSet(EmptyDict, origin, 0), par |-> EmptyDict, pq |-> {<<0, origin>>}])

Found(route) == route.dist < Infinity

\* what a call hands back to its caller: the operation and its success indicator
Returned(op, ok) == [op |-> op, ok |-> ok, id |-> <<>>]

(***************************************************************************)
(* CorridorNetwork operations.                                             *)
(***************************************************************************)
\* dijkstra(origin, destination): the cached entry, or the search, whose
\* result is cached only when the destination was reached
dijkstra(origin, destination) ==
    LET key == <<origin, destination>>
        route == IF key \in DOMAIN precomputed_paths
                 THEN precomputed_paths[key]
                 ELSE ComputeRoute(graph, length_km, origin, destination)
    IN  /\ precomputed_paths' =
              IF key \notin DOMAIN precomputed_paths /\ Found(route)
              THEN DictSet(precomputed_paths, key, route)
              ELSE precomputed_paths
        /\ ret' = Returned("dijkstra", Found(route))
        /\ UNCHANGED <<length_km, lanes, closed, graph, intersection_data, simVars, engVars>>

\* dijkstra run without a lock, as the steps another thread's call can fall
\* between.  The first step is lines 98-106: a cache hit returns, a miss sets up
\* the frame of the search.
Frame(origin, destination, st) ==
    [pc |-> "searching", origin |-> origin, destination |-> destination,
     dist |-> st.dist, par |-> st.par, pq |-> st.pq]

\* what dijkstra(key) handed back, and whether it came from the cache (line 100)
ReturnedRoute(key, route, cached) ==
    [op |-> "dijkstra", ok |-> Found(route), id |-> <<>>, key |-> key, route |-> route,
     cached |-> cached]

dijkstra_begin(origin, destination) ==
    LET key == <<origin, destination>>
    IN  /\ inflight.pc = "idle"
        /\ IF key \in DOMAIN precomputed_paths
           THEN /\ ret' = ReturnedRoute(key, precomputed_paths[key], TRUE)
                /\ UNCHANGED inflight
           ELSE /\ inflight' = Frame(origin, destination,
                                     [dist |-> DictSet(EmptyDict, origin, 0),
                                      par |-> EmptyDict, pq |-> {<<0, origin>>}])
                /\ UNCHANGED ret
        /\ UNCHANGED <<netVars, simVars, engVars>>

\* one pass of the while loop of lines 108-136 on the adjacency list as it is
\* now, or the return of line 139 when the heap is empty
dijkstra_iterate ==
    /\ inflight.pc = "searching"
    /\ IF inflight.pq = {}
       THEN /\ ret' = ReturnedRoute(<<inflight.origin, inflight.destination>>,
                                     [path |-> <<>>, dist |-> Infinity], FALSE)
            /\ inflight' = NoCall
            /\ UNCHANGED precomputed_paths
       ELSE LET e == HeapMin(inflight.pq)
                currDist == e[1]
                curr == e[2]
                popped == [inflight EXCEPT !.pq = inflight.pq \ {e}]
                route == [path |-> Reconstruct(inflight.par, inflight.destination),
                          dist |-> inflight.dist[inflight.destination]]
            IN  IF currDist > DistGet(inflight.dist, curr)
                THEN inflight' = popped /\ UNCHANGED <<ret, precomputed_paths>>
                ELSE IF curr = inflight.destination
                THEN /\ precomputed_paths' =
                           DictSet(precomputed_paths,
                                   <<inflight.origin, inflight.destination>>, route)
                     /\ ret' = ReturnedRoute(<<inflight.origin, inflight.destination>>,
                                              route, FALSE)
                     /\ inflight' = NoCall
                ELSE /\ inflight' =
                           IF curr \in DOMAIN graph
                           THEN Frame(inflight.origin, inflight.destination,
                                      Explore(graph[curr], 1, length_km, curr, currDist,
                                              popped))
                           ELSE popped
                     /\ UNCHANGED <<ret, precomputed_paths>>
    /\ UNCHANGED <<length_km, lanes, closed, graph, intersection_data, simVars, engVars>>

\* close_segment and reopen_segment run without a lock beside another thread's
\* lookup: the call can be suspended in the print of line 188 (line 210), after
\* the edit of the adjacency list and before the clear of the cache.  The first
\* step of close_segment is lines 174-186, without lines 185-186 here: an unknown
\* segment returns False, a known one is marked closed and its edge stays
close_segment_edit_keeps_edge(segment_id) ==
    /\ pending.pc = "idle"
    /\ IF segment_id \notin Segs
       THEN ret' = Returned("close_segment", FALSE) /\ UNCHANGED <<closed, graph, pending>>
       ELSE /\ closed' = [closed EXCEPT ![segment_id] = TRUE]
            /\ pending' = [pc |-> "clearing", op |-> "close_segment"]
            /\ UNCHANGED <<ret, graph>>
    /\ UNCHANGED <<length_km, lanes, intersection_data, precomputed_paths, simVars, engVars>>

\* lines 174-186 of close_segment: an unknown segment returns False, a known one
\* is marked closed and its edge removed, and the call stands before line 189
close_segment_edit(segment_id) ==
    /\ pending.pc = "idle"
    /\ IF segment_id \notin Segs
       THEN ret' = Returned("close_segment", FALSE) /\ UNCHANGED <<closed, graph, pending>>
       ELSE LET from_int == SegFrom[segment_id]
            IN  /\ closed' = [closed EXCEPT ![segment_id] = TRUE]
                /\ graph' = IF from_int \in DOMAIN graph
                            THEN [graph EXCEPT ![from_int] =
                                     SelectSeq(graph[from_int], LAMBDA e : e[2] # segment_id)]
                            ELSE graph
                /\ pending' = [pc |-> "clearing", op |-> "close_segment"]
                /\ UNCHANGED ret
    /\ UNCHANGED <<length_km, lanes, intersection_data, precomputed_paths, simVars, engVars>>

\* lines 194-208 of reopen_segment: an unknown or open segment returns False, a
\* closed one is marked open and its edge appended, and the call stands before
\* line 211
reopen_segment_edit(segment_id) ==
    /\ pending.pc = "idle"
    /\ IF segment_id \notin Segs \/ ~closed[segment_id]
       THEN ret' = Returned("reopen_segment", FALSE) /\ UNCHANGED <<closed, graph, pending>>
       ELSE LET from_int == SegFrom[segment_id]
                edge == <<SegTo[segment_id], segment_id>>
            IN  /\ closed' = [closed EXCEPT ![segment_id] = FALSE]
                /\ graph' = DictSet(graph, from_int,
                                    Append(IF from_int \in DOMAIN graph THEN graph[from_int]
                                           ELSE <<>>, edge))
                /\ pending' = [pc |-> "clearing", op |-> "reopen_segment"]
                /\ UNCHANGED ret
    /\ UNCHANGED <<length_km, lanes, intersection_data, precomputed_paths, simVars, engVars>>

\* the last step of both, lines 189-190 and 211-212: the cache is cleared and
\* True returned
clear_and_return ==
    /\ pending.pc = "clearing"
    /\ precomputed_paths' = EmptyDict
    /\ ret' = Returned(pending.op, TRUE)
    /\ pending' = NoCall
    /\ UNCHANGED <<length_km, lanes, closed, graph, intersection_data, simVars, engVars>>

\* update_segment_lanes with line 165 moved above the check of line 160: the cache
\* is cleared whether or not the segment is known
update_segment_lanes_clears_first(segment_id, new_lanes) ==
    IF segment_id \in Segs
    THEN /\ lanes' = [lanes EXCEPT ![segment_id] = new_lanes]
         /\ precomputed_paths' = EmptyDict
         /\ ret' = Returned("update_segment_lanes", TRUE)
         /\ UNCHANGED <<length_km, closed, graph, intersection_data, simVars, engVars>>
    ELSE /\ precomputed_paths' = EmptyDict
         /\ ret' = Returned("update_segment_lanes", FALSE)
         /\ UNCHANGED <<length_km, lanes, closed, graph, intersection_data, simVars, engVars>>

update_segment_lanes(segment_id, new_lanes) ==
    IF segment_id \in Segs
    THEN /\ lanes' = [lanes EXCEPT ![segment_id] = new_lanes]
         /\ precomputed_paths' = EmptyDict
         /\ ret' = Returned("update_segment_lanes", TRUE)
         /\ UNCHANGED <<length_km, closed, graph, intersection_data, simVars, engVars>>
    ELSE /\ ret' = Returned("update_segment_lanes", FALSE)
         /\ UNCHANGED <<netVars, simVars, engVars>>

\* close_segment without line 189: the edge is removed, the cache is kept
close_segment_keeps_cache(segment_id) ==
    IF segment_id \notin Segs
    THEN /\ ret' = Returned("close_segment", FALSE)
         /\ UNCHANGED <<netVars, simVars, engVars>>
    ELSE LET from_int == SegFrom[segment_id]
         IN  /\ closed' = [closed EXCEPT ![segment_id] = TRUE]
             /\ graph' = IF from_int \in DOMAIN graph
                         THEN [graph EXCEPT ![from_int] =
                                  SelectSeq(graph[from_int], LAMBDA e : e[2] # segment_id)]
                         ELSE graph
             /\ ret' = Returned("close_segment", TRUE)
             /\ UNCHANGED <<length_km, lanes, intersection_data, precomputed_paths, simVars, engVars>>

\* close_segment as a serialized call, lines 174-190 in one step
close_segment(segment_id) ==
    IF segment_id \notin Segs
    THEN /\ ret' = Returned("close_segment", FALSE)
         /\ UNCHANGED <<netVars, simVars, engVars>>
    ELSE LET from_int == SegFrom[segment_id]
         IN  /\ closed' = [closed EXCEPT ![segment_id] = TRUE]
             /\ graph' = IF from_int \in DOMAIN graph
                         THEN [graph EXCEPT ![from_int] =
                                  SelectSeq(graph[from_int], LAMBDA e : e[2] # segment_id)]
                         ELSE graph
             /\ precomputed_paths' = EmptyDict
             /\ ret' = Returned("close_segment", TRUE)
             /\ UNCHANGED <<length_km, lanes, intersection_data, simVars, engVars>>

\* reopen_segment without lines 206-208: the flag is cleared, the edge is not re-added
reopen_segment_drops_edge(segment_id) ==
    IF segment_id \notin Segs \/ ~closed[segment_id]
    THEN /\ ret' = Returned("reopen_segment", FALSE)
         /\ UNCHANGED <<netVars, simVars, engVars>>
    ELSE /\ closed' = [closed EXCEPT ![segment_id] = FALSE]
         /\ precomputed_paths' = EmptyDict
         /\ ret' = Returned("reopen_segment", TRUE)
         /\ UNCHANGED <<length_km, lanes, graph, intersection_data, simVars, engVars>>

\* reopen_segment without the check of lines 198-199: an open segment is re-added
reopen_segment_unguarded(segment_id) ==
    IF segment_id \notin Segs
    THEN /\ ret' = Returned("reopen_segment", FALSE)
         /\ UNCHANGED <<netVars, simVars, engVars>>
    ELSE LET from_int == SegFrom[segment_id]
             edge == <<SegTo[segment_id], segment_id>>
         IN  /\ closed' = [closed EXCEPT ![segment_id] = FALSE]
             /\ graph' = DictSet(graph, from_int,
                                 Append(IF from_int \in DOMAIN graph THEN graph[from_int]
                                        ELSE <<>>, edge))
             /\ precomputed_paths' = EmptyDict
             /\ ret' = Returned("reopen_segment", TRUE)
             /\ UNCHANGED <<length_km, lanes, intersection_data, simVars, engVars>>

\* reopen_segment as a serialized call, lines 194-212 in one step
reopen_segment(segment_id) ==
    IF segment_id \notin Segs \/ ~closed[segment_id]
    THEN /\ ret' = Returned("reopen_segment", FALSE)
         /\ UNCHANGED <<netVars, simVars, engVars>>
    ELSE LET from_int == SegFrom[segment_id]
             edge == <<SegTo[segment_id], segment_id>>
         IN  /\ closed' = [closed EXCEPT ![segment_id] = FALSE]
             /\ graph' = DictSet(graph, from_int,
                                 Append(IF from_int \in DOMAIN graph THEN graph[from_int]
                                        ELSE <<>>, edge))
             /\ precomputed_paths' = EmptyDict
             /\ ret' = Returned("reopen_segment", TRUE)
             /\ UNCHANGED <<length_km, lanes, intersection_data, simVars, engVars>>

Clamp(lo, hi, x) == IF x < lo THEN lo ELSE IF x > hi THEN hi ELSE x

update_signal_timing(intersection_id, green_time_delta) ==
    IF intersection_id \in DOMAIN intersection_data
    THEN LET old_green == intersection_data[intersection_id].green_time_sec
             new_green == Clamp(MinGreen, MaxGreen, old_green + green_time_delta)
         IN  /\ intersection_data' =
                   [intersection_data EXCEPT ![intersection_id].green_time_sec = new_green]
             /\ ret' = Returned("update_signal_timing", TRUE)
             /\ UNCHANGED <<length_km, lanes, closed, graph, precomputed_paths, simVars, engVars>>
    ELSE /\ ret' = Returned("update_signal_timing", FALSE)
         /\ UNCHANGED <<netVars, simVars, engVars>>

(***************************************************************************)
(* TrafficSimulator.                                                       *)
(***************************************************************************)
\* the rows of od_matrix_df, as a set of (origin, destination) pairs
\* (the groupby index of _precompute_od_paths)
OdPairsOf(rows) == {<<rows[i].o, rows[i].d>> : i \in DOMAIN rows}

\* the cache after dijkstra has been called for every pair of ps on an empty cache
CacheAfterLookups(g, len, ps) ==
    [k \in {q \in ps : Found(ComputeRoute(g, len, q[1], q[2]))} |->
        ComputeRoute(g, len, k[1], k[2])]

\* _precompute_od_paths: od_paths holds every pair, reachable or not
PrecomputeOdPaths(g, len, rows) ==
    [k \in OdPairsOf(rows) |->
        [segments |-> ComputeRoute(g, len, k[1], k[2]).path,
         distance |-> ComputeRoute(g, len, k[1], k[2]).dist]]

\* _reset_segment_state
ResetFlows == [s \in Segs |-> 0]
ResetSpeeds == [s \in Segs |-> SpeedLimit[s] * SpeedScale]
ResetTravelTimes(len) == [s \in Segs |-> (len[s] * SpeedScale) \div SpeedLimit[s]]

\* _calculate_segment_capacity
SegmentCapacity(lanesOf, s) == lanesOf[s] * LaneCapacity

RECURSIVE GCD(_, _)
GCD(a, b) == IF b = 0 THEN a ELSE GCD(b, a % b)

Max(a, b) == IF a >= b THEN a ELSE b

Min(a, b) == IF a <= b THEN a ELSE b

\* _bpr_congestion_curve without the max of line 76
BprSpeed_unfloored(flow, capacity, free_speed) ==
    IF flow <= 0 THEN free_speed * SpeedScale
    ELSE LET cap == Max(capacity, 1)
         IN  IF flow > cap
             THEN (free_speed * SpeedScale * 3) \div 10
             ELSE LET g == GCD(flow, cap)
                      f == flow \div g
                      c == cap \div g
                      q == Min(c \div f, 8)
                      c4 == 20 * c * c * c * c
                      f4 == 3 * f * f * f * f
                  IN  IF 20 * q * q * q * q >= 3 * (free_speed * SpeedScale - 1)
                      THEN free_speed * SpeedScale - 1
                      ELSE (free_speed * SpeedScale * c4) \div (c4 + f4)

\* _bpr_congestion_curve, the speed it returns (in 1/SpeedScale km/h, rounded
\* down).  With flow / capacity = f / c in lowest terms the speed is
\* free_speed * 20 c^4 / (20 c^4 + 3 f^4); when 20 c^4 >= 3 f^4 (free_speed *
\* SpeedScale - 1), which 20 q^4 >= 3 (free_speed * SpeedScale - 1) for a q <=
\* c / f implies, that is less than one unit below the free-flow speed.
BprSpeed(flow, capacity, free_speed) ==
    IF flow <= 0 THEN free_speed * SpeedScale
    ELSE LET cap == Max(capacity, 1)
         IN  IF flow > cap
             THEN Max((free_speed * SpeedScale * 3) \div 10, MinSpeed * SpeedScale)
             ELSE LET g == GCD(flow, cap)
                      f == flow \div g
                      c == cap \div g
                      q == Min(c \div f, 8)
                      c4 == 20 * c * c * c * c
                      f4 == 3 * f * f * f * f
                  IN  IF 20 * q * q * q * q >= 3 * (free_speed * SpeedScale - 1)
                      THEN Max(free_speed * SpeedScale - 1, MinSpeed * SpeedScale)
                      ELSE Max((free_speed * SpeedScale * c4) \div (c4 + f4),
                               MinSpeed * SpeedScale)

\* lines 166-168 of run_simulation: length / max(speed, 1.0) * 60 for the speed
\* _bpr_congestion_curve returns, in 1/SpeedScale minutes, rounded down.  The
\* speed is taken as the fraction it is, not as its rounded value: with a the
\* minutes at 1 km/h, the time at free_speed * 20 c^4 / (20 c^4 + 3 f^4) is
\* (a + a * 3 f^4 / (20 c^4)) / free_speed, and the second term is less than
\* one unit when 3 a < 20 q^4 for a q <= c / f
TravelTime(len, flow, capacity, free_speed) ==
    LET a == len * 60 * SpeedScale
        cap == Max(capacity, 1)
    IN  IF flow <= 0 THEN a \div Max(free_speed, 1)
        ELSE IF flow > cap
        THEN IF 3 * free_speed >= 10 * MinSpeed
             THEN (a * 10) \div (3 * free_speed)
             ELSE a \div MinSpeed
        ELSE LET g == GCD(flow, cap)
                 f == flow \div g
                 c == cap \div g
                 q == Min(c \div f, 32)
             IN  IF free_speed <= MinSpeed THEN a \div MinSpeed
                 ELSE IF 3 * a < 20 * q * q * q * q
                 THEN a \div free_speed
                 ELSE LET c4 == 20 * c * c * c * c
                          f4 == 3 * f * f * f * f
                      IN  IF free_speed * c4 < MinSpeed * (c4 + f4)
                          THEN a \div MinSpeed
                          ELSE (a + (a * f4) \div c4) \div free_speed

\* _bpr_congestion_curve, its side effect: over capacity, the queue length of the
\* first segment of segment_flows is overwritten
BprQueue(flow, capacity, state) ==
    IF flow > 0 /\ flow > Max(capacity, 1)
    THEN [state EXCEPT ![1].queue_length = ((flow - capacity) * SpeedScale) \div 60]
    ELSE state

\* a call of _bpr_congestion_curve(flow, capacity, free_speed): ret holds the
\* arguments and the speed returned
bpr_congestion_curve(flow, capacity, free_speed) ==
    /\ ret' = [op |-> "_bpr_congestion_curve", ok |-> TRUE, id |-> <<>>, flow |-> flow,
               capacity |-> capacity, free_speed |-> free_speed,
               speed |-> BprSpeed(flow, capacity, free_speed)]
    /\ seg_state' = BprQueue(flow, capacity, seg_state)
    /\ UNCHANGED <<netVars, od_matrix, od_paths, segment_flows, segment_speeds,
                   segment_travel_times, simulation_results, engVars>>

\* _route_od_flow for the rows from i on
RECURSIVE RouteRows(_, _, _, _)
RouteRows(rows, paths, i, flows) ==
    IF i > Len(rows) THEN flows
    ELSE LET key == <<rows[i].o, rows[i].d>>
             on == IF key \in DOMAIN paths THEN Range(paths[key].segments) ELSE {}
         IN  RouteRows(rows, paths, i + 1,
                       [s \in Segs |-> IF s \in on THEN flows[s] + rows[i].vph ELSE flows[s]])

\* update_segment_state, the definition at lines 314-319 (which replaces the one
\* at lines 300-307 in the class body), on the segment attributes: the flow, the
\* speed and the third argument, stored as queue_length
UpdateSegmentState(state, segment_id, flow, speed, queue) ==
    IF segment_id \in DOMAIN state
    THEN [state EXCEPT ![segment_id] =
             [current_flow |-> flow, current_speed |-> speed, queue_length |-> queue]]
    ELSE state

\* the loop of run_simulation lines 155-172 from segment i on; it ends early, with
\* raised set, at the first segment whose capacity is zero (flow / capacity)
RECURSIVE SegmentLoop(_, _, _, _, _)
SegmentLoop(i, flows, lanesOf, len, st) ==
    IF i > Len(SegFrom) THEN st
    ELSE LET capacity == SegmentCapacity(lanesOf, i)
             speed == BprSpeed(flows[i], capacity, SpeedLimit[i])
             queued == BprQueue(flows[i], capacity, st.state)
             time == TravelTime(len[i], flows[i], capacity, SpeedLimit[i])
             timed == [st EXCEPT !.speeds[i] = speed, !.times[i] = time, !.state = queued]
         IN  IF capacity = 0
             THEN [timed EXCEPT !.raised = TRUE]
             ELSE SegmentLoop(i + 1, flows, lanesOf, len,
                      [timed EXCEPT !.state =
                          UpdateSegmentState(queued, i, flows[i], speed,
                                             (flows[i] * SpeedScale) \div capacity)])

RECURSIVE SumDemand(_)
SumDemand(rows) == IF rows = <<>> THEN 0 ELSE Head(rows).vph + SumDemand(Tail(rows))

\* _compile_segment_results
CompileSegmentResults(flows, speeds, times, lanesOf) ==
    [s \in Segs |->
        [flow_vph |-> flows[s], speed_kmh |-> speeds[s], travel_time_min |-> times[s],
         congestion_ratio |-> (flows[s] * SpeedScale) \div SegmentCapacity(lanesOf, s)]]

\* a dict kept in insertion order, as a sequence of [key, value]: d[k] = v
OrderedSet(d, k, v) ==
    IF \E i \in DOMAIN d : d[i].key = k
    THEN [i \in DOMAIN d |-> IF d[i].key = k THEN [key |-> k, value |-> v] ELSE d[i]]
    ELSE Append(d, [key |-> k, value |-> v])

OrderedKeys(d) == {d[i].key : i \in DOMAIN d}

OrderedGet(d, k) == d[CHOOSE i \in DOMAIN d : d[i].key = k].value

\* del d[k]
OrderedDel(d, k) == SelectSeq(d, LAMBDA e : e.key # k)

\* run_simulation without line 143: the flows of the earlier run are not reset
run_simulation_keeps_flows(scenario_name) ==
    LET flows == RouteRows(od_matrix, od_paths, 1, segment_flows)
        done == SegmentLoop(1, flows, lanes, length_km,
                            [speeds |-> segment_speeds, times |-> segment_travel_times,
                             state |-> seg_state, raised |-> FALSE])
    IN  /\ segment_flows' = flows
        /\ segment_speeds' = done.speeds
        /\ segment_travel_times' = done.times
        /\ seg_state' = done.state
        /\ simulation_results' =
              IF done.raised THEN simulation_results
              ELSE OrderedSet(simulation_results, scenario_name,
                      [total_vehicles |-> SumDemand(od_matrix),
                       segments |-> CompileSegmentResults(flows, done.speeds, done.times,
                                                          lanes)])
        /\ ret' = Returned("run_simulation", ~done.raised)
        /\ UNCHANGED <<netVars, od_matrix, od_paths, engVars>>

\* run_simulation with the delay of the signal at the end of each segment (red
\* time, in minutes) added to its travel time
run_simulation_adds_signal_delay(scenario_name) ==
    LET flows == RouteRows(od_matrix, od_paths, 1, ResetFlows)
        done == SegmentLoop(1, flows, lanes, length_km,
                            [speeds |-> ResetSpeeds, times |-> ResetTravelTimes(length_km),
                             state |-> seg_state, raised |-> FALSE])
        delayed == [s \in Segs |->
                       done.times[s]
                       + ((intersection_data[SegTo[s]].cycle_time_sec
                           - intersection_data[SegTo[s]].green_time_sec) * SpeedScale) \div 60]
    IN  /\ segment_flows' = flows
        /\ segment_speeds' = done.speeds
        /\ segment_travel_times' = delayed
        /\ seg_state' = done.state
        /\ simulation_results' =
              IF done.raised THEN simulation_results
              ELSE OrderedSet(simulation_results, scenario_name,
                      [total_vehicles |-> SumDemand(od_matrix),
                       segments |-> CompileSegmentResults(flows, done.speeds, delayed,
                                                          lanes)])
        /\ ret' = Returned("run_simulation", ~done.raised)
        /\ UNCHANGED <<netVars, od_matrix, od_paths, engVars>>

\* run_simulation(scenario_name); the zone and OD aggregates of the result are
\* sums and means of the segment results and are not held
run_simulation(scenario_name) ==
    LET flows == RouteRows(od_matrix, od_paths, 1, ResetFlows)
        done == SegmentLoop(1, flows, lanes, length_km,
                            [speeds |-> ResetSpeeds, times |-> ResetTravelTimes(length_km),
                             state |-> seg_state, raised |-> FALSE])
    IN  /\ segment_flows' = flows
        /\ segment_speeds' = done.speeds
        /\ segment_travel_times' = done.times
        /\ seg_state' = done.state
        /\ simulation_results' =
              IF done.raised THEN simulation_results
              ELSE OrderedSet(simulation_results, scenario_name,
                      [total_vehicles |-> SumDemand(od_matrix),
                       segments |-> CompileSegmentResults(flows, done.speeds, done.times,
                                                          lanes)])
        /\ ret' = Returned("run_simulation", ~done.raised)
        /\ UNCHANGED <<netVars, od_matrix, od_paths, engVars>>

\* reset_simulation: _reset_segment_state, and the stored results are dropped
reset_simulation ==
    /\ segment_flows' = ResetFlows
    /\ segment_speeds' = ResetSpeeds
    /\ segment_travel_times' = ResetTravelTimes(length_km)
    /\ simulation_results' = <<>>
    /\ ret' = Returned("reset_simulation", TRUE)
    /\ UNCHANGED <<netVars, seg_state, od_matrix, od_paths, engVars>>

\* CorridorNetwork.update_segment_state(segment_id, flow, speed, queue) called
\* from outside a run; it returns None for a known and an unknown segment alike
update_segment_state(segment_id, flow, speed, queue) ==
    /\ seg_state' = UpdateSegmentState(seg_state, segment_id, flow, speed, queue)
    /\ ret' = Returned("update_segment_state", TRUE)
    /\ UNCHANGED <<netVars, od_matrix, od_paths, segment_flows, segment_speeds,
                   segment_travel_times, simulation_results, engVars>>

\* validate_network, the definition at lines 329-354, which replaces the one at
\* lines 250-294 in the class body: an intersection is reported when no segment
\* starts at it, a segment when an endpoint is no known intersection; ret holds
\* the ids the issues name
validate_network ==
    LET from_nodes == {SegFrom[s] : s \in Segs}
        no_outgoing == {node \in DOMAIN intersection_data :
                           node \notin DOMAIN graph /\ node \notin from_nodes}
        invalid_from == {s \in Segs : SegFrom[s] \notin DOMAIN intersection_data}
        invalid_to == {s \in Segs : SegTo[s] \notin DOMAIN intersection_data}
    IN  /\ ret' = [op |-> "validate_network", ok |-> TRUE, id |-> <<>>,
                   valid |-> no_outgoing = {} /\ invalid_from = {} /\ invalid_to = {},
                   intersections |-> no_outgoing,
                   segments |-> invalid_from \cup invalid_to]
        /\ UNCHANGED <<netVars, simVars, engVars>>

(***************************************************************************)
(* EmissionsModel.  PM2.5 is held in 1/10 gram per day, the concentration  *)
(* in 1/1000 ug/m3, AQI values in 1/AqiUnit.                               *)
(***************************************************************************)
\* get_segment_results: the segment's entry of the first stored scenario
HasSegmentResults == simulation_results # <<>>

SegmentResults(s) == simulation_results[1].value.segments[s]

\* compute_segment_emissions, PM25: 70% cars at 0.5 g and 30% trucks at 2.5 g per
\* vehicle-km (1.1 g), 24 hours
SegmentPm25(len, s) == SegmentResults(s).flow_vph * 24 * len[s] * 11

\* compute_zone_emissions, PM25, over the segments of the zone from segment i on
RECURSIVE ZonePm25(_, _, _)
ZonePm25(zone_id, len, i) ==
    IF i > Len(ZoneOf) THEN 0
    ELSE (IF ZoneOf[i] = zone_id /\ HasSegmentResults THEN SegmentPm25(len, i) ELSE 0)
         + ZonePm25(zone_id, len, i + 1)

\* the concentration of estimate_aqi_from_emissions for the argument
\* zone_emissions['PM25'] / 1000 of compute_zone_aqi: grams * 0.12 ug/m3
Concentration(pm25) == pm25 * 12

\* estimate_aqi_from_emissions on the concentration c, in 1/3000
EstimateAqi(c) ==
    LET aqi == IF c <= 30000 THEN c * 5
               ELSE IF c <= 60000 THEN 150000 + (c - 30000) * 5
               ELSE IF c <= 90000 THEN 300000 + (c - 60000) * 10
               ELSE IF c <= 120000 THEN 600000 + (c - 90000) * 10
               ELSE 900000 + Min((c - 120000) * 5, 600000)
    IN  Min(aqi, AqiCap * 3000)

BackgroundAqi(zone_id) ==
    IF zone_id \in DOMAIN ZoneBackground THEN ZoneBackground[zone_id] ELSE DefaultBackground

\* lines 167-168 with the 0.15 left out and the cap taken before the sum
ZoneAqi_caps_background_only(background_aqi, traffic_aqi) ==
    Min(background_aqi * AqiUnit, AqiCap * AqiUnit) + traffic_aqi * (AqiUnit \div 3000)

\* lines 167-168: total_aqi from the background and the estimate (in 1/3000);
\* 0.15 / 3000 is 1 / AqiUnit
ZoneAqi(background_aqi, traffic_aqi) ==
    Min(background_aqi * AqiUnit + traffic_aqi, AqiCap * AqiUnit)

\* compute_zone_aqi(zone_id): ret holds the breakdown returned
compute_zone_aqi(zone_id) ==
    LET traffic_aqi == EstimateAqi(Concentration(ZonePm25(zone_id, length_km, 1)))
    IN  /\ ret' = [op |-> "compute_zone_aqi", ok |-> TRUE, id |-> <<>>, zone_id |-> zone_id,
                   background_aqi |-> BackgroundAqi(zone_id),
                   traffic_aqi_contribution |-> traffic_aqi,
                   total_aqi |-> ZoneAqi(BackgroundAqi(zone_id), traffic_aqi),
                   pm25_grams |-> ZonePm25(zone_id, length_km, 1)]
        /\ UNCHANGED <<netVars, simVars, engVars>>

\* compute_segment_emissions(segment_id): {} (ok FALSE) when get_segment_results
\* has no entry for the segment, else the emissions of its flow_vph
compute_segment_emissions(segment_id) ==
    /\ ret' = IF HasSegmentResults /\ segment_id \in Segs
              THEN [op |-> "compute_segment_emissions", ok |-> TRUE, id |-> <<>>,
                    segment_id |-> segment_id,
                    length_km |-> length_km[segment_id],
                    daily_vehicles |-> SegmentResults(segment_id).flow_vph * 24,
                    PM25 |-> SegmentPm25(length_km, segment_id)]
              ELSE [op |-> "compute_segment_emissions", ok |-> FALSE, id |-> <<>>,
                    segment_id |-> segment_id]
    /\ UNCHANGED <<netVars, simVars, engVars>>

(***************************************************************************)
(* InterventionEngine.  A record of active_interventions holds its type,   *)
(* the ids it was applied to, and the snapshots previous_lanes and         *)
(* previous_timings (empty for the types that take none); the parameters   *)
(* it only reports (num_lanes, time_window, percentage) are not held.      *)
(***************************************************************************)
\* _capture_state
CaptureState(lanesOf) ==
    [s \in Segs |-> [lanes |-> lanesOf[s], speed_limit_kmh |-> SpeedLimit[s]]]

\* f"{prefix}_{len(self.active_interventions)}"
NextId(prefix) == <<prefix, Len(active_interventions)>>

InterventionRecord(type, targets, prevLanes, prevTimings) ==
    [type |-> type, targets |-> targets, previous_lanes |-> prevLanes,
     previous_timings |-> prevTimings]

ReturnedId(op, id) == [op |-> op, ok |-> TRUE, id |-> id]

\* the loop of add_lanes with lines 62 and 63 in the other order: the snapshot is
\* taken after the lanes were added
RECURSIVE AddLanesLoop_snapshots_after(_, _, _, _)
AddLanesLoop_snapshots_after(segment_ids, i, num_lanes, st) ==
    IF i > Len(segment_ids) THEN st
    ELSE LET seg_id == segment_ids[i]
         IN  IF seg_id \in Segs
             THEN AddLanesLoop_snapshots_after(segment_ids, i + 1, num_lanes,
                      [prev |-> DictSet(st.prev, seg_id, st.lanes[seg_id] + num_lanes),
                       lanes |-> [st.lanes EXCEPT ![seg_id] = @ + num_lanes]])
             ELSE AddLanesLoop_snapshots_after(segment_ids, i + 1, num_lanes, st)

\* the loop of add_lanes (lines 59-63) from position i of segment_ids on
RECURSIVE AddLanesLoop(_, _, _, _)
AddLanesLoop(segment_ids, i, num_lanes, st) ==
    IF i > Len(segment_ids) THEN st
    ELSE LET seg_id == segment_ids[i]
         IN  IF seg_id \in Segs
             THEN AddLanesLoop(segment_ids, i + 1, num_lanes,
                      [prev |-> DictSet(st.prev, seg_id, st.lanes[seg_id]),
                       lanes |-> [st.lanes EXCEPT ![seg_id] = @ + num_lanes]])
             ELSE AddLanesLoop(segment_ids, i + 1, num_lanes, st)

add_lanes(segment_ids, num_lanes) ==
    LET intervention_id == NextId("add_lanes")
        done == AddLanesLoop(segment_ids, 1, num_lanes, [prev |-> EmptyDict, lanes |-> lanes])
    IN  /\ active_interventions' =
              OrderedSet(active_interventions, intervention_id,
                         InterventionRecord("add_lanes", segment_ids, done.prev, EmptyDict))
        /\ lanes' = done.lanes
        /\ ret' = ReturnedId("add_lanes", intervention_id)
        /\ UNCHANGED <<length_km, closed, graph, intersection_data, precomputed_paths,
                       simVars, baseline_state>>

\* the loop of modify_signal_timing (lines 93-104) from position i on
RECURSIVE SignalLoop(_, _, _, _, _)
SignalLoop(intersection_ids, i, new_cycle_time, new_green_time, st) ==
    IF i > Len(intersection_ids) THEN st
    ELSE LET int_id == intersection_ids[i]
         IN  IF int_id \in DOMAIN st.data
             THEN LET old == st.data[int_id]
                      cycled == IF new_cycle_time # NoneValue
                                THEN [old EXCEPT !.cycle_time_sec = new_cycle_time]
                                ELSE old
                      greened == IF new_green_time # NoneValue
                                 THEN [cycled EXCEPT !.green_time_sec = new_green_time]
                                 ELSE cycled
                  IN  SignalLoop(intersection_ids, i + 1, new_cycle_time, new_green_time,
                          [prev |-> DictSet(st.prev, int_id,
                                       [cycle_time |-> old.cycle_time_sec,
                                        green_time |-> old.green_time_sec]),
                           data |-> [st.data EXCEPT ![int_id] = greened]])
             ELSE SignalLoop(intersection_ids, i + 1, new_cycle_time, new_green_time, st)

modify_signal_timing(intersection_ids, new_cycle_time, new_green_time) ==
    LET intervention_id == NextId("signal_modify")
        done == SignalLoop(intersection_ids, 1, new_cycle_time, new_green_time,
                           [prev |-> EmptyDict, data |-> intersection_data])
    IN  /\ active_interventions' =
              OrderedSet(active_interventions, intervention_id,
                         InterventionRecord("signal_timing", intersection_ids, EmptyDict,
                                            done.prev))
        /\ intersection_data' = done.data
        /\ ret' = ReturnedId("modify_signal_timing", intervention_id)
        /\ UNCHANGED <<length_km, lanes, closed, graph, precomputed_paths,
                       simVars, baseline_state>>

\* InterventionEngine.close_segment: the lanes of the known segments are set to 0
engine_close_segment(segment_ids) ==
    LET intervention_id == NextId("close_segment")
    IN  /\ active_interventions' =
              OrderedSet(active_interventions, intervention_id,
                         InterventionRecord("segment_closure", segment_ids, EmptyDict,
                                            EmptyDict))
        /\ lanes' = [s \in Segs |-> IF s \in Range(segment_ids) THEN 0 ELSE lanes[s]]
        /\ ret' = ReturnedId("InterventionEngine.close_segment", intervention_id)
        /\ UNCHANGED <<length_km, closed, graph, intersection_data, precomputed_paths,
                       simVars, baseline_state>>

truck_ban(segment_ids) ==
    LET intervention_id == NextId("truck_ban")
    IN  /\ active_interventions' =
              OrderedSet(active_interventions, intervention_id,
                         InterventionRecord("truck_ban", segment_ids, EmptyDict, EmptyDict))
        /\ ret' = ReturnedId("truck_ban", intervention_id)
        /\ UNCHANGED <<netVars, simVars, baseline_state>>

reroute_traffic(from_segment, to_segments) ==
    LET intervention_id == NextId("reroute")
    IN  /\ active_interventions' =
              OrderedSet(active_interventions, intervention_id,
                         InterventionRecord("traffic_reroute", <<from_segment>> \o to_segments,
                                            EmptyDict, EmptyDict))
        /\ ret' = ReturnedId("reroute_traffic", intervention_id)
        /\ UNCHANGED <<netVars, simVars, baseline_state>>

\* apply_multiple_interventions.  An item holds its type, the ids it names
\* (segment_ids, intersection_ids, or from_segment followed by to_segments), the
\* optional num_lanes, cycle_time and green_time, and has_key: whether the dict
\* holds the key its type is read with (interv['segment_ids'] raises KeyError
\* otherwise).
KnownTypes == {"add_lanes", "signal_timing", "segment_closure", "truck_ban", "reroute"}

IdPrefix(type) ==
    CASE type = "add_lanes" -> "add_lanes"
      [] type = "signal_timing" -> "signal_modify"
      [] type = "segment_closure" -> "close_segment"
      [] type = "truck_ban" -> "truck_ban"
      [] OTHER -> "reroute"

RecordType(type) == IF type = "reroute" THEN "traffic_reroute" ELSE type

\* one pass of the loop of lines 211-241 on the item
BatchStep(item, st) ==
    IF item.type \notin KnownTypes
    THEN [st EXCEPT !.results = Append(@, [error |-> item.type])]
    ELSE IF ~item.has_key
    THEN [st EXCEPT !.raised = TRUE]
    ELSE LET id == <<IdPrefix(item.type), Len(st.active)>>
             added == AddLanesLoop(item.targets, 1, item.num_lanes,
                                   [prev |-> EmptyDict, lanes |-> st.lanes])
             signalled == SignalLoop(item.targets, 1, item.cycle_time, item.green_time,
                                     [prev |-> EmptyDict, data |-> st.data])
         IN  [lanes |-> CASE item.type = "add_lanes" -> added.lanes
                          [] item.type = "segment_closure" ->
                                [s \in Segs |-> IF s \in Range(item.targets) THEN 0
                                                ELSE st.lanes[s]]
                          [] OTHER -> st.lanes,
              data |-> IF item.type = "signal_timing" THEN signalled.data ELSE st.data,
              active |-> OrderedSet(st.active, id,
                            InterventionRecord(RecordType(item.type), item.targets,
                                IF item.type = "add_lanes" THEN added.prev ELSE EmptyDict,
                                IF item.type = "signal_timing" THEN signalled.prev
                                ELSE EmptyDict)),
              results |-> Append(st.results, [intervention_id |-> id]),
              raised |-> FALSE]

\* the loop with the else branch of line 239 returning: nothing is attempted after
\* an item of unknown type
RECURSIVE BatchLoop_stops_at_failure(_, _, _)
BatchLoop_stops_at_failure(interventions, i, st) ==
    IF i > Len(interventions) \/ st.raised THEN st
    ELSE IF interventions[i].type \notin KnownTypes
    THEN BatchStep(interventions[i], st)
    ELSE BatchLoop_stops_at_failure(interventions, i + 1, BatchStep(interventions[i], st))

\* the loop of lines 211-241 from item i on; an exception ends it
RECURSIVE BatchLoop(_, _, _)
BatchLoop(interventions, i, st) ==
    IF i > Len(interventions) \/ st.raised THEN st
    ELSE BatchLoop(interventions, i + 1, BatchStep(interventions[i], st))

\* apply_multiple_interventions(interventions): ret holds the list of outcomes
\* (none when the call raised)
apply_multiple_interventions(interventions) ==
    LET done == BatchLoop(interventions, 1,
                          [lanes |-> lanes, data |-> intersection_data,
                           active |-> active_interventions, results |-> <<>>,
                           raised |-> FALSE])
    IN  /\ lanes' = done.lanes
        /\ intersection_data' = done.data
        /\ active_interventions' = done.active
        /\ ret' = [op |-> "apply_multiple_interventions", ok |-> ~done.raised, id |-> <<>>,
                   results |-> IF done.raised THEN <<>> ELSE done.results]
        /\ UNCHANGED <<length_km, closed, graph, precomputed_paths, simVars,
                       baseline_state>>

\* the effect of rolling the record rec back on the lanes and the intersections
\* (lines 264-270): previous_lanes is written back, previous_timings is merged
\* into the intersection's dict with the keys it was captured under
RollbackLanes_takes_lane_away(rec, lanesOf) ==
    IF rec.type = "add_lanes"
    THEN [s \in Segs |-> IF s \in DOMAIN rec.previous_lanes THEN lanesOf[s] - 1
                         ELSE lanesOf[s]]
    ELSE lanesOf

RollbackLanes(rec, lanesOf) ==
    IF rec.type = "add_lanes"
    THEN [s \in Segs |-> IF s \in DOMAIN rec.previous_lanes THEN rec.previous_lanes[s]
                         ELSE lanesOf[s]]
    ELSE lanesOf

RollbackTimings(rec, data) ==
    IF rec.type = "signal_timing"
    THEN [i \in DOMAIN data |-> IF i \in DOMAIN rec.previous_timings
                                THEN DictUpdate(data[i], rec.previous_timings[i])
                                ELSE data[i]]
    ELSE data

\* rollback_intervention with line 272 clearing the dict instead of deleting the key
rollback_intervention_clears_records(intervention_id) ==
    IF intervention_id \notin OrderedKeys(active_interventions)
    THEN /\ ret' = Returned("rollback_intervention", FALSE)
         /\ UNCHANGED <<netVars, simVars, engVars>>
    ELSE LET intervention == OrderedGet(active_interventions, intervention_id)
         IN  /\ lanes' = RollbackLanes(intervention, lanes)
             /\ intersection_data' = RollbackTimings(intervention, intersection_data)
             /\ active_interventions' = <<>>
             /\ ret' = ReturnedId("rollback_intervention", intervention_id)
             /\ UNCHANGED <<length_km, closed, graph, precomputed_paths, simVars,
                            baseline_state>>

rollback_intervention(intervention_id) ==
    IF intervention_id \notin OrderedKeys(active_interventions)
    THEN /\ ret' = Returned("rollback_intervention", FALSE)
         /\ UNCHANGED <<netVars, simVars, engVars>>
    ELSE LET intervention == OrderedGet(active_interventions, intervention_id)
         IN  /\ lanes' = RollbackLanes(intervention, lanes)
             /\ intersection_data' = RollbackTimings(intervention, intersection_data)
             /\ active_interventions' = OrderedDel(active_interventions, intervention_id)
             /\ ret' = ReturnedId("rollback_intervention", intervention_id)
             /\ UNCHANGED <<length_km, closed, graph, precomputed_paths, simVars,
                            baseline_state>>

\* reset_all_interventions: every active record rolled back, in insertion order
RECURSIVE ResetLoop(_, _, _)
ResetLoop(records, i, st) ==
    IF i > Len(records) THEN st
    ELSE ResetLoop(records, i + 1,
                   [lanes |-> RollbackLanes(records[i].value, st.lanes),
                    data |-> RollbackTimings(records[i].value, st.data)])

reset_all_interventions ==
    LET done == ResetLoop(active_interventions, 1,
                          [lanes |-> lanes, data |-> intersection_data])
    IN  /\ lanes' = done.lanes
        /\ intersection_data' = done.data
        /\ active_interventions' = <<>>
        /\ ret' = Returned("reset_all_interventions", TRUE)
        /\ UNCHANGED <<length_km, closed, graph, precomputed_paths, simVars,
                       baseline_state>>

\* f'intervention_{intervention_id}'
ScenarioOf(intervention_id) ==
    "intervention_" \o intervention_id[1] \o "_" \o ToString(intervention_id[2])

\* estimate_impact(intervention_id): run_simulation('baseline') and then
\* run_simulation(f'intervention_{intervention_id}') in one call, whether or not
\* the id is active; a run that raises ends the call with what it had written
estimate_impact(intervention_id) ==
    LET flows == RouteRows(od_matrix, od_paths, 1, ResetFlows)
        start == [speeds |-> ResetSpeeds, times |-> ResetTravelTimes(length_km),
                  state |-> seg_state, raised |-> FALSE]
        first == SegmentLoop(1, flows, lanes, length_km, start)
        second == SegmentLoop(1, flows, lanes, length_km,
                              [start EXCEPT !.state = first.state])
        done == IF first.raised THEN first ELSE second
        baseline_flow == SumDemand(od_matrix)
        intervention_flow == SumDemand(od_matrix)
    IN  /\ segment_flows' = flows
        /\ segment_speeds' = done.speeds
        /\ segment_travel_times' = done.times
        /\ seg_state' = done.state
        /\ simulation_results' =
              IF done.raised THEN simulation_results
              ELSE OrderedSet(
                      OrderedSet(simulation_results, "baseline",
                          [total_vehicles |-> baseline_flow,
                           segments |-> CompileSegmentResults(flows, first.speeds,
                                                              first.times, lanes)]),
                      ScenarioOf(intervention_id),
                      [total_vehicles |-> intervention_flow,
                       segments |-> CompileSegmentResults(flows, second.speeds,
                                                          second.times, lanes)])
        /\ ret' = IF done.raised
                  THEN [op |-> "estimate_impact", ok |-> FALSE, id |-> intervention_id]
                  ELSE [op |-> "estimate_impact", ok |-> TRUE, id |-> intervention_id,
                        baseline_total_flow |-> baseline_flow,
                        intervention_total_flow |-> intervention_flow,
                        flow_change_percent |->
                            IF baseline_flow > 0
                            THEN ((intervention_flow - baseline_flow) * 100)
                                     \div baseline_flow
                            ELSE 0]
        /\ UNCHANGED <<netVars, od_matrix, od_paths, engVars>>

(***************************************************************************)
(* Construction.  The network is built from the tables, then a             *)
(* TrafficSimulator and an InterventionEngine are constructed on it: the   *)
(* simulator looks up the route of every pair of the OD table, which       *)
(* fills the route cache.                                                  *)
(***************************************************************************)
OdRows == {[o |-> q[1], d |-> q[2], vph |-> v] : q \in DemandPairs, v \in Demands}
OdTables == UNION {[1..k -> OdRows] : k \in 0..MaxRows}

NoLast == [kind |-> "none", op |-> "", id |-> <<>>, lanes |-> EmptyDict,
           data |-> EmptyDict, fresh |-> TRUE]

Constructed(lengths, tables) ==
    /\ length_km \in lengths
    /\ od_matrix \in tables
    /\ lanes = InitialLanes
    /\ closed = [s \in Segs |-> FALSE]
    /\ graph = BuildGraph
    /\ intersection_data = BuildIntersectionData
    /\ seg_state = [s \in Segs |-> [current_flow |-> 0,
                                    current_speed |-> SpeedLimit[s] * SpeedScale,
                                    queue_length |-> 0]]
    /\ precomputed_paths = CacheAfterLookups(BuildGraph, length_km, OdPairsOf(od_matrix))
    /\ od_paths = PrecomputeOdPaths(BuildGraph, length_km, od_matrix)
    /\ segment_flows = ResetFlows
    /\ segment_speeds = ResetSpeeds
    /\ segment_travel_times = ResetTravelTimes(length_km)
    /\ simulation_results = <<>>
    /\ active_interventions = <<>>
    /\ baseline_state = CaptureState(InitialLanes)
    /\ ret = Returned("init", TRUE)
    /\ snap = NoSnap
    /\ last = NoLast
    /\ inflight = NoCall
    /\ pending = NoCall

(***************************************************************************)
(* Spec: the network under any serialized sequence of route lookups and    *)
(* of its four mutations (no OD demand).                                   *)
(***************************************************************************)
Init == Constructed([Segs -> 1..MaxLen], {<<>>})

Next ==
    \/ \E q \in QueryPairs : dijkstra(q[1], q[2]) /\ UNCHANGED histVars
    \/ \E s \in LaneSegInputs, n \in LaneInputs :
          update_segment_lanes(s, n) /\ UNCHANGED histVars
    \/ \E s \in SegInputs : close_segment(s) /\ UNCHANGED histVars
    \/ \E s \in SegInputs : reopen_segment(s) /\ UNCHANGED histVars
    \/ \E i \in SignalInputs, d \in GreenDeltas :
          update_signal_timing(i, d) /\ UNCHANGED histVars

Spec == Init /\ [][Next]_vars

(***************************************************************************)
(* SpecReopen: closures and reopenings with route lookups; snap keeps the  *)
(* adjacency list an open segment was closed in, until that segment is     *)
(* reopened by the next successful closure or reopening.                   *)
(***************************************************************************)
SnapClose(s) ==
    snap' = IF s \notin Segs THEN snap
            ELSE IF closed[s] THEN NoSnap
            ELSE [phase |-> "closed", seg |-> s, graph |-> graph]

SnapReopen(s) ==
    snap' = IF s \notin Segs \/ ~closed[s] THEN snap
            ELSE IF snap.phase = "closed" /\ snap.seg = s
            THEN [snap EXCEPT !.phase = "reopened"]
            ELSE NoSnap

NextReopen ==
    \/ \E q \in QueryPairs : dijkstra(q[1], q[2]) /\ UNCHANGED histVars
    \/ \E s \in SegInputs : close_segment(s) /\ SnapClose(s) /\ UNCHANGED <<last, inflight, pending>>
    \/ \E s \in SegInputs : reopen_segment(s) /\ SnapReopen(s) /\ UNCHANGED <<last, inflight, pending>>

SpecReopen == Init /\ [][NextReopen]_vars

(***************************************************************************)
(* SpecRoute: route lookups on the network with segments of any            *)
(* non-negative length, under closures and reopenings.                     *)
(***************************************************************************)
InitRoute == Constructed([Segs -> 0..MaxLen], {<<>>})

\* the pairs dijkstra is called with: the pair with two routes, an unreachable pair
RouteQueries == {<<1, 3>>, <<3, 1>>}

NextRoute ==
    \/ \E q \in RouteQueries : dijkstra(q[1], q[2]) /\ UNCHANGED histVars
    \/ \E s \in Segs : close_segment(s) /\ UNCHANGED histVars
    \/ \E s \in Segs : reopen_segment(s) /\ UNCHANGED histVars

SpecRoute == InitRoute /\ [][NextRoute]_vars

(***************************************************************************)
(* SpecSim: a simulator constructed on the fresh network, for every OD     *)
(* table of at most MaxRows rows; then closures, reopenings and            *)
(* simulation runs.                                                        *)
(***************************************************************************)
InitSim == Constructed([Segs -> 1..MaxLen], OdTables)

NextSim ==
    \/ \E s \in SegInputs : close_segment(s) /\ UNCHANGED histVars
    \/ \E s \in SegInputs : reopen_segment(s) /\ UNCHANGED histVars
    \/ \E n \in ScenarioNames : run_simulation(n) /\ UNCHANGED histVars

SpecSim == InitSim /\ [][NextSim]_vars

(***************************************************************************)
(* SpecEng: the interventions of the engine on a fresh network; last keeps *)
(* the intervention applied by the latest call, what it was applied to     *)
(* (the lanes for add_lanes and close_segment, the intersections for       *)
(* modify_signal_timing), and whether the call that followed rolled it     *)
(* back.                                                                   *)
(***************************************************************************)
InitEng == Constructed({[s \in Segs |-> 1]}, {<<>>})

Applied ==
    last' = [kind |-> "applied", op |-> ret'.op, id |-> ret'.id,
             lanes |-> IF ret'.op \in {"add_lanes", "InterventionEngine.close_segment"}
                       THEN lanes
                       ELSE EmptyDict,
             data |-> IF ret'.op = "modify_signal_timing" THEN intersection_data
                      ELSE EmptyDict,
             fresh |-> ret'.id \notin OrderedKeys(active_interventions)]

Undone(id) ==
    last' = IF id \notin OrderedKeys(active_interventions) THEN last
            ELSE IF last.kind = "applied" /\ last.id = id
            THEN [last EXCEPT !.kind = "undone"]
            ELSE NoLast

CanApply == Len(active_interventions) < MaxActive

Prefixes == {"add_lanes", "signal_modify", "close_segment", "truck_ban", "reroute"}
IdInputs == {<<p, n>> : p \in Prefixes, n \in 0..(MaxActive - 1)}

NextEng ==
    \/ \E l \in SegmentLists, n \in LaneIncrements :
          /\ CanApply
          /\ add_lanes(l, n)
          /\ \A s \in Segs : lanes'[s] <= MaxLanes
          /\ Applied /\ UNCHANGED <<snap, inflight, pending>>
    \/ \E l \in IntersectionLists, c \in CycleInputs, g \in GreenInputs :
          CanApply /\ modify_signal_timing(l, c, g) /\ Applied /\ UNCHANGED <<snap, inflight, pending>>
    \/ \E l \in SegmentLists :
          CanApply /\ engine_close_segment(l) /\ Applied /\ UNCHANGED <<snap, inflight, pending>>
    \/ \E l \in BanLists : CanApply /\ truck_ban(l) /\ Applied /\ UNCHANGED <<snap, inflight, pending>>
    \/ \E r \in RerouteInputs :
          CanApply /\ reroute_traffic(r[1], r[2]) /\ Applied /\ UNCHANGED <<snap, inflight, pending>>
    \/ \E id \in IdInputs : rollback_intervention(id) /\ Undone(id) /\ UNCHANGED <<snap, inflight, pending>>
    \/ reset_all_interventions /\ last' = NoLast /\ UNCHANGED <<snap, inflight, pending>>

SpecEng == InitEng /\ [][NextEng]_vars

(***************************************************************************)
(* SpecRerun: simulation runs, closures and reopenings; last keeps the     *)
(* scenario name of the latest run, whether the call before it was a run   *)
(* of the same name, and the results that call had left.                   *)
(***************************************************************************)
RerunLengths == {[s \in Segs |-> 1], [s \in Segs |-> IF s = 4 THEN MaxLen ELSE 1]}

InitRerun == Constructed(RerunLengths, OdTables)

Reran(scenario_name) ==
    last' = [kind |-> "run", name |-> scenario_name,
             again |-> ret.op = "run_simulation" /\ last.kind = "run"
                          /\ last.name = scenario_name,
             flows |-> segment_flows, speeds |-> segment_speeds,
             times |-> segment_travel_times,
             results |-> IF scenario_name \in OrderedKeys(simulation_results)
                         THEN OrderedGet(simulation_results, scenario_name).segments
                         ELSE <<>>]

NextRerun ==
    \/ \E s \in Segs : close_segment(s) /\ last' = NoLast /\ UNCHANGED <<snap, inflight, pending>>
    \/ \E s \in Segs : reopen_segment(s) /\ last' = NoLast /\ UNCHANGED <<snap, inflight, pending>>
    \/ \E n \in ScenarioNames : run_simulation(n) /\ Reran(n) /\ UNCHANGED <<snap, inflight, pending>>

SpecRerun == InitRerun /\ [][NextRerun]_vars

(***************************************************************************)
(* SpecSignal: simulation runs and changes of signal timing, through the   *)
(* network and through the engine; last keeps the outputs of the run       *)
(* before the latest one, and whether a timing was changed and nothing     *)
(* else was called between the two.                                        *)
(***************************************************************************)
SignalNodes == {2, NoSuchIntersection}

\* OD tables of one row, and the one that loads every segment
SignalTables ==
    {<<r>> : r \in OdRows}
        \cup {<<[o |-> 1, d |-> 2, vph |-> 1200], [o |-> 1, d |-> 3, vph |-> 1200]>>}

InitSignal == Constructed({[s \in Segs |-> 1]}, SignalTables)

SignalRun(scenario_name) ==
    last' = [kind |-> "run", name |-> scenario_name,
             after_change |-> last.kind = "run" /\ last.signalled,
             signalled |-> FALSE,
             flows |-> segment_flows, speeds |-> segment_speeds,
             times |-> segment_travel_times,
             results |-> IF last.kind = "run"
                         THEN OrderedGet(simulation_results, last.name).segments
                         ELSE <<>>]

SignalChanged ==
    last' = IF last.kind = "run" /\ intersection_data' # intersection_data
            THEN [last EXCEPT !.signalled = TRUE]
            ELSE last

NextSignal ==
    \/ \E n \in ScenarioNames : run_simulation(n) /\ SignalRun(n) /\ UNCHANGED <<snap, inflight, pending>>
    \/ \E i \in SignalNodes, d \in GreenDeltas :
          update_signal_timing(i, d) /\ SignalChanged /\ UNCHANGED <<snap, inflight, pending>>
    \/ \E i \in SignalNodes, c \in CycleInputs, g \in GreenInputs :
          /\ CanApply
          /\ modify_signal_timing(<<i>>, c, g)
          /\ SignalChanged /\ UNCHANGED <<snap, inflight, pending>>

SpecSignal == InitSignal /\ [][NextSignal]_vars

(***************************************************************************)
(* SpecRace: a route lookup run step by step while another thread closes   *)
(* and reopens segments, each of those calls in its two steps.  last keeps *)
(* whether the adjacency list was changed since the lookup in flight       *)
(* began, and the cache keys stored by a lookup for which that was so.     *)
(***************************************************************************)
RacedKeys == IF last.kind = "race" THEN last.raced ELSE {}
MutatedInFlight == last.kind = "race" /\ last.mutated

RaceHistory(mutated, raced) == [kind |-> "race", mutated |-> mutated, raced |-> raced]

LookupBegan ==
    last' = IF inflight'.pc = "searching" THEN RaceHistory(FALSE, RacedKeys) ELSE last

LookupStepped ==
    last' = IF precomputed_paths' # precomputed_paths
            THEN RaceHistory(FALSE,
                     IF MutatedInFlight
                     THEN RacedKeys \cup {<<inflight.origin, inflight.destination>>}
                     ELSE RacedKeys)
            ELSE last

Edited ==
    last' = IF pending'.pc = "clearing"
            THEN RaceHistory(MutatedInFlight \/ (inflight.pc = "searching" /\ graph' # graph),
                             RacedKeys)
            ELSE last

Cleared == last' = RaceHistory(MutatedInFlight, {})

NextRace ==
    \/ \E q \in RouteQueries \cup {<<1, 2>>} :
          dijkstra_begin(q[1], q[2]) /\ LookupBegan /\ UNCHANGED <<snap, pending>>
    \/ dijkstra_iterate /\ LookupStepped /\ UNCHANGED <<snap, pending>>
    \/ \E s \in Segs : close_segment_edit(s) /\ Edited /\ UNCHANGED <<snap, inflight>>
    \/ \E s \in Segs : reopen_segment_edit(s) /\ Edited /\ UNCHANGED <<snap, inflight>>
    \/ clear_and_return /\ Cleared /\ UNCHANGED <<snap, inflight>>

InitRace == Constructed(RerunLengths, {<<>>})

SpecRace == InitRace /\ [][NextRace]_vars

(***************************************************************************)
(* SpecEngSim: lane interventions of the engine, their rollback, and       *)
(* simulation runs, on a network whose route cache the simulator filled    *)
(* at construction.                                                        *)
(***************************************************************************)
\* OD tables of one row: demand over segment 1, and demand that passes it by
EngSimTables == {<<[o |-> 1, d |-> 2, vph |-> 1200]>>, <<[o |-> 1, d |-> 3, vph |-> 1200]>>}

InitEngSim == Constructed({[s \in Segs |-> 1]}, EngSimTables)

NextEngSim ==
    \/ \E l \in SegmentLists, n \in LaneIncrements :
          /\ CanApply
          /\ add_lanes(l, n)
          /\ \A s \in Segs : lanes'[s] <= MaxLanes
          /\ UNCHANGED histVars
    \/ \E l \in SegmentLists : CanApply /\ engine_close_segment(l) /\ UNCHANGED histVars
    \/ \E id \in IdInputs : rollback_intervention(id) /\ UNCHANGED histVars
    \/ update_segment_lanes(1, 0) /\ UNCHANGED histVars
    \/ run_simulation("baseline") /\ UNCHANGED histVars
    \/ estimate_impact(<<"add_lanes", 0>>) /\ UNCHANGED histVars

SpecEngSim == InitEngSim /\ [][NextEngSim]_vars

(***************************************************************************)
(* SpecUnwind: lane interventions on a fresh engine and their rollback,    *)
(* one by one or by reset_all_interventions.  last keeps, until a call     *)
(* follows a reset or an intervention follows a rollback: stack, the ids   *)
(* applied and not rolled back; levels, the lanes at construction and      *)
(* after each intervention; lifo, whether every intervention was an        *)
(* add_lanes naming known segments once each and every rollback took the   *)
(* latest one left; dup, whether a list named a segment twice; rolled and  *)
(* reset, whether a rollback succeeded and whether the reset was called.   *)
(***************************************************************************)
UnwindLists == {<<1>>, <<1, 1>>, <<1, 2>>}
UnwindIds == {<<p, n>> : p \in {"add_lanes", "close_segment"}, n \in 0..(MaxActive - 1)}

Spent == [kind |-> "spent"]

Unwinding ==
    IF last.kind = "unwind" THEN last
    ELSE [kind |-> "unwind", stack |-> <<>>, levels |-> <<lanes>>, lifo |-> TRUE,
          dup |-> FALSE, rolled |-> FALSE, reset |-> FALSE]

Repeats(ids) == \E i, j \in DOMAIN ids : i # j /\ ids[i] = ids[j]

UnwindApplied(segment_ids, adds) ==
    last' = IF last.kind = "spent" \/ Unwinding.rolled \/ Unwinding.reset THEN Spent
            ELSE [Unwinding EXCEPT
                     !.stack = Append(@, ret'.id),
                     !.levels = Append(@, lanes'),
                     !.lifo = @ /\ adds /\ ~Repeats(segment_ids)
                                 /\ Range(segment_ids) \subseteq Segs,
                     !.dup = @ \/ Repeats(segment_ids)]

UnwindRolledBack(id) ==
    last' = IF last.kind = "spent" \/ Unwinding.reset THEN Spent
            ELSE IF id \notin OrderedKeys(active_interventions) THEN last
            ELSE LET h == Unwinding
                     top == h.stack[Len(h.stack)]
                 IN  [h EXCEPT !.stack = IF top = id THEN SubSeq(h.stack, 1, Len(h.stack) - 1)
                                         ELSE SelectSeq(h.stack, LAMBDA x : x # id),
                               !.lifo = @ /\ top = id,
                               !.rolled = TRUE]

UnwindReset ==
    last' = IF last.kind = "spent" \/ Unwinding.reset THEN Spent
            ELSE [Unwinding EXCEPT !.reset = TRUE]

NextUnwind ==
    \/ \E l \in UnwindLists, n \in LaneIncrements :
          /\ CanApply
          /\ add_lanes(l, n)
          /\ \A s \in Segs : lanes'[s] <= MaxLanes
          /\ UnwindApplied(l, TRUE) /\ UNCHANGED <<snap, inflight, pending>>
    \/ /\ CanApply
       /\ engine_close_segment(<<1>>)
       /\ UnwindApplied(<<1>>, FALSE) /\ UNCHANGED <<snap, inflight, pending>>
    \/ \E id \in UnwindIds :
          rollback_intervention(id) /\ UnwindRolledBack(id) /\ UNCHANGED <<snap, inflight, pending>>
    \/ reset_all_interventions /\ UnwindReset /\ UNCHANGED <<snap, inflight, pending>>

SpecUnwind == InitEng /\ [][NextUnwind]_vars

(***************************************************************************)
(* SpecBpr: calls of the congestion curve with flows from below zero to    *)
(* above capacity, capacities of 0..MaxLanes lanes, and free-flow speeds   *)
(* below, at and above the floor.                                          *)
(***************************************************************************)
FlowInputs == {k * (LaneCapacity \div 2) : k \in -1..MaxFlowSteps}
CapacityInputs == {n * LaneCapacity : n \in 0..MaxLanes}
FreeSpeedInputs == {MinSpeed - 2, MinSpeed, 50}

InitBpr == Constructed({[s \in Segs |-> 1]}, {<<>>})

NextBpr ==
    \E f \in FlowInputs, c \in CapacityInputs, v \in FreeSpeedInputs :
        bpr_congestion_curve(f, c, v) /\ UNCHANGED histVars

SpecBpr == InitBpr /\ [][NextBpr]_vars

(***************************************************************************)
(* SpecValidate: validate_network under closures and reopenings.           *)
(***************************************************************************)
InitValidate == Constructed(RerunLengths, {<<>>})

NextValidate ==
    \/ \E s \in SegInputs : close_segment(s) /\ UNCHANGED histVars
    \/ \E s \in SegInputs : reopen_segment(s) /\ UNCHANGED histVars
    \/ validate_network /\ UNCHANGED histVars

SpecValidate == InitValidate /\ [][NextValidate]_vars

(***************************************************************************)
(* SpecAqi: simulation runs on OD tables of light and heavy demand, and    *)
(* compute_zone_aqi for each zone.                                         *)
(***************************************************************************)
AqiRows == {[o |-> q[1], d |-> q[2], vph |-> v] : q \in DemandPairs, v \in AqiDemands}
AqiTables == UNION {[1..k -> AqiRows] : k \in 0..MaxRows}

InitAqi == Constructed(RerunLengths, AqiTables)

NextAqi ==
    \/ \E n \in ScenarioNames : run_simulation(n) /\ UNCHANGED histVars
    \/ \E z \in ZoneInputs : compute_zone_aqi(z) /\ UNCHANGED histVars

SpecAqi == InitAqi /\ [][NextAqi]_vars

(***************************************************************************)
(* SpecLatest: the demand table is read anew by every run (line 146 of     *)
(* run_simulation); between runs the caller replaces network.od_matrix_df  *)
(* with another table, and the emissions are computed after each run;     *)
(* reset_simulation drops the stored results, and update_segment_state is  *)
(* called from outside a run.                                              *)
(***************************************************************************)
LatestTables == {<<[o |-> q[1], d |-> q[2], vph |-> v]>> :
                    q \in {<<1, 2>>, <<1, 3>>}, v \in AqiDemands}

InitLatest == Constructed({[s \in Segs |-> 1]}, LatestTables)

\* network.od_matrix_df = table, by the caller that supplies the demand
set_od_matrix_df(table) ==
    /\ od_matrix' = table
    /\ ret' = Returned("set_od_matrix_df", TRUE)
    /\ UNCHANGED <<netVars, seg_state, od_paths, segment_flows, segment_speeds,
                   segment_travel_times, simulation_results, engVars>>

NextLatest ==
    \/ \E n \in ScenarioNames : run_simulation(n) /\ UNCHANGED histVars
    \/ \E t \in LatestTables : set_od_matrix_df(t) /\ UNCHANGED histVars
    \/ \E s \in SegInputs : compute_segment_emissions(s) /\ UNCHANGED histVars
    \/ \E z \in ZoneInputs : compute_zone_aqi(z) /\ UNCHANGED histVars
    \/ reset_simulation /\ UNCHANGED histVars
    \/ \E s \in {2, NoSuchSegment} :
          update_segment_state(s, 7, 3 * SpeedScale, 150) /\ UNCHANGED histVars

SpecLatest == InitLatest /\ [][NextLatest]_vars

(***************************************************************************)
(* SpecBatch: batches applied through apply_multiple_interventions while   *)
(* at most MaxBatch items are attempted before a reset, and                *)
(* reset_all_interventions; last keeps the batch and the lanes and         *)
(* intersections it was applied to.                                        *)
(***************************************************************************)
Item(type, targets) ==
    [type |-> type, targets |-> targets, num_lanes |-> 1, cycle_time |-> 100,
     green_time |-> NoneValue, has_key |-> TRUE]

BatchItems ==
    {Item("add_lanes", <<1>>), Item("add_lanes", <<NoSuchSegment>>),
     Item("signal_timing", <<1>>),
     Item("segment_closure", <<2>>), Item("truck_ban", <<1>>),
     Item("reroute", <<1, 2>>), Item("no_such_type", <<1>>),
     [Item("add_lanes", <<1>>) EXCEPT !.has_key = FALSE]}

Batches == UNION {[1..k -> BatchItems] : k \in 0..MaxBatch}

Batched(interventions) ==
    last' = [kind |-> "batch", items |-> interventions, lanes |-> lanes,
             data |-> intersection_data]

NextBatch ==
    \/ \E b \in Batches :
          /\ Len(active_interventions) + Len(b) <= MaxBatch
          /\ apply_multiple_interventions(b)
          /\ \A s \in Segs : lanes'[s] <= MaxLanes
          /\ Batched(b) /\ UNCHANGED <<snap, inflight, pending>>
    \/ reset_all_interventions /\ last' = NoLast /\ UNCHANGED <<snap, inflight, pending>>

SpecBatch == InitEng /\ [][NextBatch]_vars

(***************************************************************************)
(* Reference definitions the claims are stated with: the directed paths    *)
(* of open segments and the least total length over them.                  *)
(***************************************************************************)
\* the sequences of distinct segments, of at most |Nodes| - 1 segments: lengths
\* are positive, so a shortest path passes no intersection twice
SegSeqs ==
    UNION {{p \in [1..k -> Segs] : \A i \in 1..k, j \in 1..k : p[i] = p[j] => i = j} :
           k \in 0..(Cardinality(Nodes) - 1)}

\* the number of times the edge of segment s is held in the adjacency list g
EdgeCount(g, s) ==
    IF SegFrom[s] \in DOMAIN g
    THEN Cardinality({i \in DOMAIN g[SegFrom[s]] : g[SegFrom[s]][i] = <<SegTo[s], s>>})
    ELSE 0

\* p is a connected chain from o to d of segments whose edge is in g
IsChain(g, p, o, d) ==
    /\ \A i \in DOMAIN p : EdgeCount(g, p[i]) > 0
    /\ IF Len(p) = 0 THEN o = d
       ELSE /\ SegFrom[p[1]] = o
            /\ SegTo[p[Len(p)]] = d
            /\ \A i \in 1..(Len(p) - 1) : SegTo[p[i]] = SegFrom[p[i + 1]]

RECURSIVE PathLength(_, _)
PathLength(len, p) == IF p = <<>> THEN 0 ELSE len[Head(p)] + PathLength(len, Tail(p))

Chains(g, o, d) == {p \in SegSeqs : IsChain(g, p, o, d)}

Least(ds) == CHOOSE x \in ds : \A y \in ds : x <= y

\* the least total length over the paths from o to n of at most k open segments
\* (Bellman-Ford), Infinity when there is none
RECURSIVE WithinHops(_, _, _, _, _)
WithinHops(g, len, o, n, k) ==
    IF k = 0 THEN (IF n = o THEN 0 ELSE Infinity)
    ELSE LET into == {s \in Segs : SegTo[s] = n /\ EdgeCount(g, s) > 0}
             via == {s \in into : WithinHops(g, len, o, SegFrom[s], k - 1) < Infinity}
         IN  Least({WithinHops(g, len, o, n, k - 1)}
                   \cup {WithinHops(g, len, o, SegFrom[s], k - 1) + len[s] : s \in via})

ShortestDistance(g, len, o, d) == WithinHops(g, len, o, d, Cardinality(Nodes) - 1)

MutationOps == {"update_segment_lanes", "close_segment", "reopen_segment",
                "update_signal_timing"}

\* C1: whenever one of the four NetworkModel mutations returns True, the route
\* cache precomputed_paths is empty when the call returns.
C1_MutationEmptiesCache ==
    (ret.op \in MutationOps /\ ret.ok) => precomputed_paths = EmptyDict

\* C3: under any serialized sequence of lookups and mutations, every entry of
\* precomputed_paths is a chain of segments whose edge is in the adjacency list,
\* its distance is the shortest distance in the current graph, and it is the
\* route a search of the current graph returns (no entry predates a mutation
\* that changed it).
C3_CacheIsCurrent ==
    \A key \in DOMAIN precomputed_paths :
        LET r == precomputed_paths[key]
        IN  /\ IsChain(graph, r.path, key[1], key[2])
            /\ r.dist = ShortestDistance(graph, length_km, key[1], key[2])
            /\ r = ComputeRoute(graph, length_km, key[1], key[2])

\* a route recomputed after a closure: segment 1 is closed and the cache holds
\* the detour over the parallel segment 2
C3_Witness ==
    /\ closed[1]
    /\ <<1, 2>> \in DOMAIN precomputed_paths
    /\ precomputed_paths[<<1, 2>>].path = <<2>>
    /\ ret = Returned("dijkstra", TRUE)

\* C9: the edge (to, segment_id) is in the adjacency list of the segment's
\* from-intersection exactly once if the segment is not marked closed, and not at
\* all if it is.
C9_EdgeIffOpen ==
    \A s \in Segs : EdgeCount(graph, s) = IF closed[s] THEN 0 ELSE 1

\* a reopen that was refused for an open segment, after a close and reopen changed
\* the order of the adjacency list, while another segment is closed
C9_Witness ==
    /\ ret = Returned("reopen_segment", FALSE)
    /\ graph # BuildGraph
    /\ ~closed[1]
    /\ graph[1][Len(graph[1])] = <<SegTo[1], 1>>
    /\ \E s \in Segs : closed[s]

\* C2: after CorridorNetwork.close_segment(x) has returned True, the next
\* run_simulation of a simulator constructed before the closure assigns zero flow
\* to segment x, for every OD demand table.
C2_ClosedSegmentGetsNoFlow ==
    ret.op = "run_simulation" => \A x \in Segs : closed[x] => segment_flows[x] = 0

\* C4: add_lanes(list, n) immediately followed by rollback_intervention of the
\* returned id leaves every segment's lane count equal to its value before
\* add_lanes, also for a list that names a segment more than once.
C4_AddLanesRollbackRestores ==
    (last.kind = "undone" /\ last.op = "add_lanes") => lanes = last.lanes

\* C5: modify_signal_timing followed by rollback_intervention of the returned id
\* restores cycle_time_sec and green_time_sec of every intersection to the values
\* before modify_signal_timing.
C5_SignalRollbackRestores ==
    (last.kind = "undone" /\ last.op = "modify_signal_timing") =>
        \A i \in Nodes :
            /\ intersection_data[i].cycle_time_sec = last.data[i].cycle_time_sec
            /\ intersection_data[i].green_time_sec = last.data[i].green_time_sec

\* C6: InterventionEngine.close_segment(ids) followed by rollback_intervention of
\* the returned id restores every segment's lane count to its value before the
\* closure.
C6_ClosureRollbackRestores ==
    (last.kind = "undone" /\ last.op = "InterventionEngine.close_segment") =>
        lanes = last.lanes

\* C7: a newly applied intervention is never given the id of a record that is
\* still active.
C7_FreshIds == last.kind = "applied" => last.fresh

\* C8: after reset_all_interventions every segment's lane count and every
\* intersection's cycle and green time equal the values they had when the
\* InterventionEngine was constructed.
C8_ResetRestoresBaseline ==
    ret.op = "reset_all_interventions" =>
        /\ \A s \in Segs : lanes[s] = baseline_state[s].lanes
        /\ \A i \in Nodes :
              /\ intersection_data[i].cycle_time_sec = BuildIntersectionData[i].cycle_time_sec
              /\ intersection_data[i].green_time_sec = BuildIntersectionData[i].green_time_sec

\* what dijkstra(o, d) returns in the current state
RouteNow(o, d) ==
    IF <<o, d>> \in DOMAIN precomputed_paths THEN precomputed_paths[<<o, d>>]
    ELSE ComputeRoute(graph, length_km, o, d)

\* what dijkstra(o, d) returned before the closure snap was taken at (by
\* C3_CacheIsCurrent a cached entry is the search's result)
RouteBefore(o, d) == ComputeRoute(snap.graph, length_km, o, d)

\* d can be reached from o in the graph g without segment x
ReachableWithout(g, x, o, d) == \E p \in Chains(g, o, d) : x \notin Range(p)

\* the shortest paths from o to d in the graph g
ShortestPaths(g, len, o, d) ==
    {p \in Chains(g, o, d) : PathLength(len, p) = ShortestDistance(g, len, o, d)}

\* C10 as claimed: for every pair reachable without x, close_segment(x) followed by
\* reopen_segment(x) makes dijkstra return the identical ordered segment-id path
\* it returned before the closure, also with equal-length paths or parallel
\* segments.
C10_SamePathAfterReopen ==
    snap.phase = "reopened" =>
        \A o \in Nodes, d \in Nodes :
            ReachableWithout(snap.graph, snap.seg, o, d) => RouteNow(o, d) = RouteBefore(o, d)

\* C10 as amended: for every open segment x and every pair reachable without x,
\* close_segment(x) followed by reopen_segment(x) makes dijkstra return the same
\* distance as before the closure, and the identical path when the pair had a
\* single shortest path before the closure.
C10_SameDistanceAfterReopen ==
    snap.phase = "reopened" =>
        \A o \in Nodes, d \in Nodes :
            ReachableWithout(snap.graph, snap.seg, o, d) =>
                /\ RouteNow(o, d).dist = RouteBefore(o, d).dist
                /\ Cardinality(ShortestPaths(snap.graph, length_km, o, d)) = 1
                      => RouteNow(o, d).path = RouteBefore(o, d).path

\* segment 1, the shorter of the two parallel segments and first in the adjacency
\* list, was closed and reopened (it is now last in the list), and the route from
\* 1 to 2, which can do without it, has been looked up again
C10_Witness ==
    /\ snap.phase = "reopened"
    /\ snap.seg = 1
    /\ length_km[1] < length_km[2]
    /\ graph[1][Len(graph[1])] = <<SegTo[1], 1>>
    /\ ret = Returned("dijkstra", TRUE)
    /\ <<1, 2>> \in DOMAIN precomputed_paths
    /\ precomputed_paths[<<1, 2>>].path = <<1>>

\* C11: for every reachable pair, the path dijkstra returns is a connected chain
\* of open segments from the origin to the destination, and the returned distance
\* is the sum of length_km over the returned segments.
C11_PathIsChainOfItsLength ==
    \A o \in NodeInputs, d \in NodeInputs :
        LET r == RouteNow(o, d)
        IN  Found(r) => /\ IsChain(graph, r.path, o, d)
                        /\ r.dist = PathLength(length_km, r.path)

\* segment 4 (the direct road) is closed and the route from 1 to 3 over two
\* segments has been looked up and is held in the cache
C11_Witness ==
    /\ closed[4]
    /\ ret = Returned("dijkstra", TRUE)
    /\ <<1, 3>> \in DOMAIN precomputed_paths
    /\ Len(precomputed_paths[<<1, 3>>].path) = 2

\* C12: for non-negative segment lengths and every pair, dijkstra returns the
\* minimum total length over all directed paths of open segments, and the empty
\* path with infinite distance exactly when there is no such path.
C12_DistanceIsMinimum ==
    \A o \in NodeInputs, d \in NodeInputs :
        LET r == RouteNow(o, d)
        IN  /\ r.dist = ShortestDistance(graph, length_km, o, d)
            /\ \A p \in Chains(graph, o, d) : r.dist <= PathLength(length_km, p)
            /\ (r.path = <<>> /\ r.dist = Infinity) <=> (Chains(graph, o, d) = {})

\* the two-segment route from 1 to 3 is strictly shorter than the open direct
\* road, one of its segments has length zero, and 3 to 1 is unreachable
C12_Witness ==
    /\ ~closed[4] /\ ~closed[3] /\ \E s \in {1, 2} : ~closed[s]
    /\ length_km[3] = 0
    /\ RouteNow(1, 3).dist < length_km[4]
    /\ Len(RouteNow(1, 3).path) = 2
    /\ RouteNow(3, 1) = [path |-> <<>>, dist |-> Infinity]
    /\ ret = Returned("dijkstra", FALSE)

\* the calls of the four mutations with an id that is in no table
UnknownIdCall ==
    \/ \E s \in SegInputs \ Segs, n \in LaneInputs : update_segment_lanes(s, n)
    \/ \E s \in SegInputs \ Segs : close_segment(s)
    \/ \E s \in SegInputs \ Segs : reopen_segment(s)
    \/ \E i \in NodeInputs \ Nodes, d \in GreenDeltas : update_signal_timing(i, d)

\* C13: a mutation called with an id that is not in the network returns False, and
\* a mutation that returns False leaves the adjacency list, the segment and
\* intersection attributes and the route cache unchanged.
C13_UnknownIdChangesNothing ==
    [][/\ UnknownIdCall => (ret'.op \in MutationOps /\ ~ret'.ok)
       /\ (ret'.op \in MutationOps /\ ~ret'.ok) =>
              UNCHANGED <<length_km, lanes, closed, graph, intersection_data,
                          precomputed_paths, seg_state>>]_vars

\* update_segment_lanes has just refused an unknown id while the cache holds a
\* route and a segment is closed
C13_Witness ==
    /\ ret = Returned("update_segment_lanes", FALSE)
    /\ precomputed_paths # EmptyDict
    /\ \E s \in Segs : closed[s]

\* the number of times the id x is named in the list ids
Occurrences(ids, x) == Cardinality({i \in DOMAIN ids : ids[i] = x})

\* the lanes after the item has been applied alone to the lanes lanesOf
LanesAlone(item, lanesOf) ==
    [s \in Segs |->
        CASE item.type = "add_lanes" -> lanesOf[s] + item.num_lanes * Occurrences(item.targets, s)
          [] item.type = "segment_closure" /\ Occurrences(item.targets, s) > 0 -> 0
          [] OTHER -> lanesOf[s]]

\* the intersections after the item has been applied alone to data
DataAlone(item, data) ==
    [i \in DOMAIN data |->
        IF item.type = "signal_timing" /\ Occurrences(item.targets, i) > 0
        THEN [cycle_time_sec |-> IF item.cycle_time # NoneValue THEN item.cycle_time
                                 ELSE data[i].cycle_time_sec,
              green_time_sec |-> IF item.green_time # NoneValue THEN item.green_time
                                 ELSE data[i].green_time_sec]
        ELSE data[i]]

\* the items applied one after the other, each alone, from item i on
RECURSIVE OneByOne(_, _, _)
OneByOne(items, i, st) ==
    IF i > Len(items) THEN st
    ELSE OneByOne(items, i + 1, [lanes |-> LanesAlone(items[i], st.lanes),
                                 data |-> DataAlone(items[i], st.data)])

\* C14: apply_multiple_interventions on items that hold their keys returns one
\* outcome per item, in input order (an error for an unknown type, an id of the
\* item's kind otherwise), and leaves the lanes and the signal timings as applying
\* each item alone, one after the other, does: a failing item stops nothing.
C14_BatchAppliesEveryItem ==
    (last.kind = "batch" /\ \A i \in DOMAIN last.items : last.items[i].has_key) =>
        LET alone == OneByOne(last.items, 1, [lanes |-> last.lanes, data |-> last.data])
        IN  /\ ret.ok
            /\ Len(ret.results) = Len(last.items)
            /\ \A i \in DOMAIN last.items :
                  IF last.items[i].type \in KnownTypes
                  THEN /\ DOMAIN ret.results[i] = {"intervention_id"}
                       /\ ret.results[i].intervention_id[1] = IdPrefix(last.items[i].type)
                  ELSE ret.results[i] = [error |-> last.items[i].type]
            /\ lanes = alone.lanes
            /\ \A i \in Nodes :
                  /\ intersection_data[i].cycle_time_sec = alone.data[i].cycle_time_sec
                  /\ intersection_data[i].green_time_sec = alone.data[i].green_time_sec

\* a batch whose first item has an unknown type and whose second item added a lane
\* to segment 1
C14_Witness ==
    /\ last.kind = "batch"
    /\ Len(last.items) = 2
    /\ last.items[1].type \notin KnownTypes
    /\ last.items[2] = Item("add_lanes", <<1>>)
    /\ lanes[1] = last.lanes[1] + 1
    /\ Len(ret.results) = 2

\* the demand of the rows, from row i on, whose route returned by dijkstra in the
\* current state holds segment s
RECURSIVE DemandOver(_, _, _)
DemandOver(rows, i, s) ==
    IF i > Len(rows) THEN 0
    ELSE (IF s \in Range(RouteNow(rows[i].o, rows[i].d).path) THEN rows[i].vph ELSE 0)
         + DemandOver(rows, i + 1, s)

\* C15: after every run_simulation the flow of each segment is the sum of
\* vehicles_per_hour over exactly the OD entries whose shortest path (the one the
\* route cache gives) holds the segment.
C15_FlowIsDemandOnShortestPaths ==
    ret.op = "run_simulation" =>
        \A s \in Segs : segment_flows[s] = DemandOver(od_matrix, 1, s)

\* C16: two consecutive run_simulation calls with the same scenario name and
\* nothing in between leave identical flows, speeds and travel times and store
\* identical per-segment results under that name.
C16_RerunIsIdentical ==
    (last.kind = "run" /\ last.again) =>
        /\ segment_flows = last.flows
        /\ segment_speeds = last.speeds
        /\ segment_travel_times = last.times
        /\ OrderedGet(simulation_results, last.name).segments = last.results

\* the same scenario has been run twice in a row, after a run under the other
\* name, with demand that slows a segment below its speed limit
C16_Witness ==
    /\ last.kind = "run" /\ last.again
    /\ Len(simulation_results) = 2
    /\ \E s \in Segs : segment_flows[s] > 0 /\ segment_speeds[s] < SpeedLimit[s] * SpeedScale

\* C17 as claimed: for every flow, capacity and positive free-flow speed, also
\* below 5 km/h, the speed returned is at least 5 km/h and at most the free-flow
\* speed.
C17_SpeedWithinBounds ==
    (ret.op = "_bpr_congestion_curve" /\ ret.flow >= 0) =>
        /\ ret.speed >= MinSpeed * SpeedScale
        /\ ret.speed <= ret.free_speed * SpeedScale

\* C17 as amended: the speed returned lies between 5 km/h and the free-flow speed:
\* at least 5 and at most the free-flow speed when that is 5 km/h or more, at
\* least the free-flow speed and at most 5 when it is less.
C17_SpeedBetweenFloorAndFree ==
    ret.op = "_bpr_congestion_curve" =>
        IF ret.free_speed >= MinSpeed
        THEN /\ ret.speed >= MinSpeed * SpeedScale
             /\ ret.speed <= ret.free_speed * SpeedScale
        ELSE /\ ret.speed >= ret.free_speed * SpeedScale
             /\ ret.speed <= MinSpeed * SpeedScale

\* a call over capacity with a free-flow speed whose 30% is below the floor: the
\* floor is what is returned
C17_Witness ==
    /\ ret.op = "_bpr_congestion_curve"
    /\ ret.free_speed = MinSpeed
    /\ ret.capacity > 0
    /\ ret.flow > ret.capacity
    /\ ret.speed = MinSpeed * SpeedScale

\* C18: for fixed capacity and free-flow speed the speed is non-increasing in the
\* flow: no smaller flow, from zero on, gives a lower speed than the call just made.
C18_SpeedNonIncreasingInFlow ==
    ret.op = "_bpr_congestion_curve" =>
        \A f \in FlowInputs :
            (0 <= f /\ f <= ret.flow) => BprSpeed(f, ret.capacity, ret.free_speed) >= ret.speed

\* C19: for every zone and every set of non-negative segment flows,
\* compute_zone_aqi returns 0 <= total_aqi <= 500, and total_aqi >=
\* background_aqi whenever the traffic contribution is not negative.
C19_TotalAqiWithinBounds ==
    ret.op = "compute_zone_aqi" =>
        /\ 0 <= ret.total_aqi
        /\ ret.total_aqi <= AqiCap * AqiUnit
        /\ ret.traffic_aqi_contribution >= 0 =>
               ret.total_aqi >= ret.background_aqi * AqiUnit

\* a zone whose traffic puts the PM2.5 concentration between 60 and 90 ug/m3: the
\* estimate is between 100 and 200, below its cap
C19_Witness ==
    /\ ret.op = "compute_zone_aqi"
    /\ ret.traffic_aqi_contribution > 100 * 3000
    /\ ret.traffic_aqi_contribution < 200 * 3000
    /\ ret.total_aqi = ret.background_aqi * AqiUnit + ret.traffic_aqi_contribution

\* the start node of a reachability search: the first key of graph, which is
\* the from-intersection of the first segment (keys are never deleted)
StartNode == SegFrom[1]

\* the intersections a breadth-first search over graph finds from the nodes in seen
RECURSIVE ReachableFrom(_, _)
ReachableFrom(g, seen) ==
    LET more == UNION {{e[1] : e \in Range(g[n])} : n \in seen \cap DOMAIN g} \ seen
    IN  IF more = {} THEN seen ELSE ReachableFrom(g, seen \cup more)

Unreachable == DOMAIN intersection_data \ ReachableFrom(graph, {StartNode})

DanglingEndpoint ==
    \E s \in Segs : SegFrom[s] \notin DOMAIN intersection_data
                     \/ SegTo[s] \notin DOMAIN intersection_data

\* C20: validate_network reports as an issue every intersection that cannot be
\* reached from the start node over directed open edges, and reports valid =
\* TRUE when there is no such intersection and no dangling endpoint.  (That the
\* call changes no network state is in the action itself.)
C20_ValidateReportsUnreachable ==
    ret.op = "validate_network" =>
        /\ Unreachable \subseteq ret.intersections
        /\ (Unreachable = {} /\ ~DanglingEndpoint) => ret.valid

MetadataOps == {"truck_ban", "reroute_traffic"}
MetadataTypes == {"truck_ban", "traffic_reroute"}

\* C21: a truck_ban or reroute_traffic call adds one record to
\* active_interventions and leaves the adjacency list, the segment and
\* intersection attributes, the route cache and everything run_simulation
\* computes from unchanged; rolling such a record back changes no network
\* state either.
C21_MetadataOnly ==
    [][/\ ret'.op \in MetadataOps =>
              /\ Len(active_interventions') = Len(active_interventions) + 1
              /\ UNCHANGED <<netVars, simVars>>
       /\ (/\ ret'.op = "rollback_intervention"
           /\ ret'.ok
           /\ OrderedGet(active_interventions, ret'.id).type \in MetadataTypes) =>
              UNCHANGED <<netVars, simVars>>]_vars

\* C22: a run_simulation that follows a change of an intersection's cycle or
\* green time, with nothing else called since the run before, leaves the same
\* flows, speeds and travel times and stores the same per-segment results
\* (congestion ratios included) as that run did.
C22_SignalTimingNotInResults ==
    (last.kind = "run" /\ last.after_change) =>
        /\ segment_flows = last.flows
        /\ segment_speeds = last.speeds
        /\ segment_travel_times = last.times
        /\ OrderedGet(simulation_results, last.name).segments = last.results

\* a run has followed a change of the timing of intersection 2, where the loaded
\* segments 1 and 2 end, with demand that slows a segment down
C22_Witness ==
    /\ last.kind = "run" /\ last.after_change
    /\ \/ intersection_data[2].green_time_sec # DefaultGreen
       \/ intersection_data[2].cycle_time_sec # DefaultCycle
    /\ \E s \in Segs : SegTo[s] = 2 /\ segment_flows[s] > 0
                         /\ segment_speeds[s] < SpeedLimit[s] * SpeedScale

\* the cache keys whose path traverses a segment that is marked closed
StaleKeys ==
    {key \in DOMAIN precomputed_paths :
        \E s \in Range(precomputed_paths[key].path) : closed[s]}

\* C23: once close_segment has returned, the cache comes to hold a path over a
\* closed segment, and only through a lookup during whose search the adjacency
\* list was changed (before the clear of line 189 the entries of earlier lookups
\* are still held); a lookup that is served from the cache returns the entry,
\* stale or not.
C23_StalePathOnlyByRace ==
    /\ pending.pc = "idle" => StaleKeys \subseteq RacedKeys
    /\ (ret.op = "dijkstra" /\ ret.cached) => ret.route = precomputed_paths[ret.key]

\* close_segment(1) ran while dijkstra(1, 2) was in flight: the cache holds the
\* path over the closed segment 1, and a later lookup has been served it
C23_Witness ==
    /\ pending.pc = "idle"
    /\ closed[1]
    /\ <<1, 2>> \in StaleKeys
    /\ precomputed_paths[<<1, 2>>].path = <<1>>
    /\ ret = ReturnedRoute(<<1, 2>>, precomputed_paths[<<1, 2>>], TRUE)

EngineLaneOps == {"add_lanes", "InterventionEngine.close_segment", "rollback_intervention"}

\* C24: after an add_lanes, an InterventionEngine.close_segment or a
\* rollback_intervention that changed a segment's lane count, precomputed_paths
\* holds no entry computed before the change: it is empty when the call returns.
C24_EngineLaneChangeEmptiesCache ==
    [][(ret'.op \in EngineLaneOps /\ lanes' # lanes) => precomputed_paths' = EmptyDict]_vars

\* the segments the InterventionEngine.close_segment call that has just returned
\* was applied to
JustClosed ==
    IF ret.op = "InterventionEngine.close_segment"
    THEN Range(OrderedGet(active_interventions, ret.id).targets) \cap Segs
    ELSE {}

\* C25: the run_simulation that follows InterventionEngine.close_segment assigns
\* zero flow to each segment it closed, and puts the demand of an OD pair that
\* has a route over the segments with lanes left on such a route.
C25_EngineClosureReroutes ==
    [][ret'.op = "run_simulation" =>
          /\ \A x \in JustClosed : segment_flows'[x] = 0
          /\ JustClosed # {} =>
                 \A i \in DOMAIN od_matrix :
                     LET open == [n \in DOMAIN graph |->
                                     SelectSeq(graph[n], LAMBDA e : lanes[e[2]] > 0)]
                         route == ComputeRoute(open, length_km, od_matrix[i].o, od_matrix[i].d)
                     IN  Found(route) =>
                             \A s \in Range(route.path) :
                                 segment_flows'[s] >= od_matrix[i].vph]_vars

\* C28: run_simulation with a segment of 0 lanes completes and stores a result
\* for the scenario.
C28_ZeroLanesRunCompletes ==
    [][(ret'.op = "run_simulation" /\ \E s \in Segs : lanes[s] = 0) =>
          /\ ret'.ok
          /\ "baseline" \in OrderedKeys(simulation_results')]_vars

\* C26: rollback_intervention with an active id removes the record of that id
\* and leaves every other record, and their order, as it was; with an id that is
\* not active it returns an error and changes neither the network nor the records.
C26_RollbackRemovesOneRecord ==
    [][\A id \in UnwindIds :
          rollback_intervention(id) =>
              LET keys == OrderedKeys(active_interventions)
              IN  IF id \in keys
                  THEN /\ ret'.ok
                       /\ OrderedKeys(active_interventions') = keys \ {id}
                       /\ Len(active_interventions') = Len(active_interventions) - 1
                       /\ \A k \in keys \ {id} :
                              OrderedGet(active_interventions', k)
                                  = OrderedGet(active_interventions, k)
                  ELSE /\ ~ret'.ok
                       /\ UNCHANGED <<netVars, simVars, engVars>>]_vars

\* a rollback has been refused while a record is active, after an earlier
\* rollback succeeded and nothing was applied since
C26_Witness ==
    /\ ret = Returned("rollback_intervention", FALSE)
    /\ last.kind = "unwind" /\ last.rolled
    /\ active_interventions # <<>>

\* reset_all_interventions has rolled back two interventions applied to the
\* fresh engine that both changed the lane count of segment s
ResetOfTwoOn(s) ==
    /\ ret.op = "reset_all_interventions"
    /\ last.kind = "unwind" /\ last.reset /\ ~last.rolled
    /\ Len(last.stack) = 2
    /\ last.levels[1][s] # last.levels[2][s]
    /\ last.levels[2][s] # last.levels[3][s]

\* the lane count of s is neither the original one nor the one after the first
\* or after the second intervention
NeitherNorOn(s) == lanes[s] \notin {last.levels[1][s], last.levels[2][s], last.levels[3][s]}

\* C29: two interventions that change the same segment's lane count can be left
\* by reset_all_interventions at a lane count that is neither the original nor
\* the one after the first or the second (C29_Witness); that happens only when
\* one of the two names the segment more than once.
C29_ResetStrandsOnlyRepeats ==
    \A s \in Segs : (ResetOfTwoOn(s) /\ NeitherNorOn(s)) => last.dup

\* add_lanes(['s1', 's1']) then close_segment(['s1']) then the reset: 2, 4 and 0
\* lanes in turn, and 3 lanes left
C29_Witness ==
    /\ ResetOfTwoOn(1) /\ NeitherNorOn(1)
    /\ last.levels[1][1] = 2 /\ last.levels[2][1] = 4 /\ last.levels[3][1] = 0
    /\ lanes[1] = 3

\* C30: add_lanes interventions applied to a fresh engine, each naming known
\* segments once, and then rolled back one by one in exact reverse order, leave
\* every segment with the lane count it had before the first.
C30_ReverseRollbackRestores ==
    (last.kind = "unwind" /\ last.lifo /\ last.rolled /\ last.stack = <<>>) =>
        lanes = last.levels[1]

\* two add_lanes that overlap on segment 1 have been rolled back, latest first
C30_Witness ==
    /\ last.kind = "unwind" /\ last.lifo /\ last.rolled /\ last.stack = <<>>
    /\ Len(last.levels) = 3
    /\ last.levels[3][1] = last.levels[1][1] + 2
    /\ last.levels[3][2] = last.levels[1][2] + 1
    /\ ret.op = "rollback_intervention"

\* PM2.5 of a zone from segment_flows, the flows the most recent run left
RECURSIVE LatestZonePm25(_, _)
LatestZonePm25(zone_id, i) ==
    IF i > Len(ZoneOf) THEN 0
    ELSE (IF ZoneOf[i] = zone_id THEN segment_flows[i] * 24 * length_km[i] * 11 ELSE 0)
         + LatestZonePm25(zone_id, i + 1)

\* C27: after a run of run_simulation has returned, compute_segment_emissions
\* and compute_zone_aqi are computed from the per-segment flows of the most
\* recent run (segment_flows), whatever scenarios were stored before it
C27_EmissionsFollowLatestRun ==
    /\ (ret.op = "compute_segment_emissions" /\ ret.ok)
          => ret.PM25 = segment_flows[ret.segment_id] * 24 * length_km[ret.segment_id] * 11
    /\ (ret.op = "compute_zone_aqi" /\ HasSegmentResults)
          => ret.pm25_grams = LatestZonePm25(ret.zone_id, 1)

====
